---- MODULE Spec2Model ----
(***************************************************************************)
(* Model of the SQL tools of genai-toolbox: tidb-sql, mindsdb-sql and      *)
(* postgres-execute-sql.  One invocation of Tool.Invoke is a sequence of   *)
(* steps (template resolution, parameter extraction, interpolation, the    *)
(* driver's query call, result materialisation).  Statements and strings   *)
(* are sequences of one-character tokens; a Go template action such as     *)
(* {{.t}} is one token.                                                    *)
(***************************************************************************)
EXTENDS Integers, Sequences, FiniteSets, TLC

VARIABLES tool, params, db, pc, newStatement, sliceParams, finalStatement,
          calls, yielded, rawValues, out, ret, failure, results, parked,
          file, srcs, toolConfigs, toolsMap, loadErr, phase,
          request, response, handler,
          tableNames, listed,
          bqProject, bqData, bqParams, bqCalls, bqRet,
          lookerLooks, lookerQueries, mk,
          toolRegistry, pendingInits, panicked,
          ipQuery, ipParams, ipResult, ipParamIndex, ipReplaced, ipReturned

\* the locals of the running invocation of Invoke
locals == <<params, db, pc, newStatement, sliceParams, finalStatement,
            calls, yielded, rawValues, out, ret, failure, results>>

\* the state of loading the tools file and initializing the tools
loading == <<file, srcs, toolConfigs, toolsMap, loadErr, phase>>

\* the request the server is handling
serving == <<request, response, handler>>

\* one invocation of the prebuilt mssql tool list_tables
listing == <<tableNames, listed>>

\* one invocation of bigquery-get-dataset-info
metadata == <<bqProject, bqData, bqParams, bqCalls, bqRet>>

\* the Looker instance and the running invocations of looker-make-look
looker == <<lookerLooks, lookerQueries, mk>>

\* the tool registry while the packages' init functions run
registering == <<toolRegistry, pendingInits, panicked>>

\* one call of interpolateParams, statement by statement
interpolating == <<ipQuery, ipParams, ipResult, ipParamIndex, ipReplaced, ipReturned>>

vars == <<tool, locals, parked, loading, serving, listing, metadata, looker,
          registering, interpolating>>

\* what the steps of Invoke leave alone besides their own locals
otherVars == <<parked, loading, serving, listing, metadata, looker, registering, interpolating>>

(***************************************************************************)
(* Bounds                                                                  *)
(***************************************************************************)
MaxStrLen == 2
MaxRows == 2

(***************************************************************************)
(* Text                                                                    *)
(***************************************************************************)
Quote == "'"
Backslash == "\\"
Placeholder == "?"
Chars == {"a", Quote, Placeholder, Backslash}

Strings(n) == UNION {[1..k -> Chars] : k \in 0..n}

RECURSIVE Concat(_)
Concat(ss) == IF ss = <<>> THEN <<>> ELSE Head(ss) \o Concat(Tail(ss))

Digit(d) == CASE d = 0 -> "0" [] d = 1 -> "1" [] d = 2 -> "2" [] d = 3 -> "3"
              [] d = 4 -> "4" [] d = 5 -> "5" [] d = 6 -> "6" [] d = 7 -> "7"
              [] d = 8 -> "8" [] d = 9 -> "9"

RECURSIVE FormatNat(_)
FormatNat(n) == IF n < 10 THEN <<Digit(n)>>
                ELSE Append(FormatNat(n \div 10), Digit(n % 10))

\* fmt.Sprintf("%d", v)
FormatInt(n) == IF n < 0 THEN <<"-">> \o FormatNat(0 - n) ELSE FormatNat(n)

\* fmt.Sprintf("%v", v) of a float64 given in tenths: 15 is 1.5, -20 is -2
FormatFloat(t) ==
  LET a == IF t < 0 THEN 0 - t ELSE t
      sign == IF t < 0 THEN <<"-">> ELSE <<>>
      frac == IF a % 10 = 0 THEN <<>> ELSE <<".", Digit(a % 10)>>
  IN sign \o FormatNat(a \div 10) \o frac

(***************************************************************************)
(* Parameter values (Go's any): one record shape for every dynamic type    *)
(***************************************************************************)
Nil == [type |-> "nil", s |-> <<>>, n |-> 0]
StrV(s) == [type |-> "string", s |-> s, n |-> 0]
IntV(n) == [type |-> "int", s |-> <<>>, n |-> n]
UintV(n) == [type |-> "uint", s |-> <<>>, n |-> n]
FloatV(t) == [type |-> "float", s |-> <<>>, n |-> t]
BoolV(b) == [type |-> "bool", s |-> <<>>, n |-> IF b THEN 1 ELSE 0]
\* any other type (an array, say), with its fmt "%v" form
OtherV(s) == [type |-> "other", s |-> s, n |-> 0]

Values == {StrV(s) : s \in Strings(MaxStrLen)}
          \cup {Nil, IntV(0), IntV(7), IntV(-12), UintV(105), FloatV(15), FloatV(-20),
                BoolV(TRUE), BoolV(FALSE), OtherV(<<"[", "a", Quote, "]">>)}

Values2 == {StrV(<<"a">>), StrV(<<Placeholder>>), IntV(7), Nil}

TemplateValues == {StrV(<<"a">>), StrV(<<Placeholder>>)}

(***************************************************************************)
(* Tool configurations (read-only after Config.Initialize)                 *)
(***************************************************************************)
TemplateTokens == {"{{.t}}", "{{.p1}}"}

TokName(tok) == IF tok = "{{.t}}" THEN "t" ELSE "p1"

NoValue == "<no value>"

SqlKinds == {"tidb-sql", "mindsdb-sql"}

Kinds == SqlKinds \cup {"postgres-execute-sql"}

SqlConfigs ==
  { [Statement |-> <<"{{.t}}", Placeholder, "a", Placeholder>>,
     Parameters |-> <<"p1", "p2">>, TemplateParameters |-> <<"t">>],
    [Statement |-> <<Placeholder, "{{.p1}}">>,
     Parameters |-> <<"p1">>, TemplateParameters |-> <<>>],
    [Statement |-> <<"a", Placeholder>>,
     Parameters |-> <<"p2", "p1">>, TemplateParameters |-> <<>>] }

Tools ==
  { [kind |-> k, Statement |-> c.Statement, Parameters |-> c.Parameters,
     TemplateParameters |-> c.TemplateParameters] : k \in SqlKinds, c \in SqlConfigs }
  \cup { [kind |-> "postgres-execute-sql", Statement |-> <<>>,
          Parameters |-> <<"sql">>, TemplateParameters |-> <<>>] }

(***************************************************************************)
(* Requests: tools.ParamValues, a list of name/value pairs                 *)
(***************************************************************************)
Shapes == { <<"t", "p1", "p2">>, <<"p2", "t", "p1">>, <<"p1", "p2">>,
            <<"t", "p2">>, <<>> }

Request(shape, tv, v1, v2) ==
  [i \in 1..Len(shape) |->
     [Name |-> shape[i],
      Value |-> CASE shape[i] = "t" -> tv [] shape[i] = "p1" -> v1 [] OTHER -> v2]]

Requests == { Request(sh, tv, v1, v2) :
                sh \in Shapes, tv \in TemplateValues, v1 \in Values, v2 \in Values2 }

FewRequests == { Request(sh, StrV(<<"a">>), StrV(<<"a", Quote>>), IntV(7)) : sh \in Shapes }

\* ParamValues.AsMap: a later pair of the same name wins
AsMap(ps) ==
  [nm \in {ps[i].Name : i \in 1..Len(ps)} |->
     ps[CHOOSE i \in 1..Len(ps) :
          /\ ps[i].Name = nm
          /\ \A j \in (i+1)..Len(ps) : ps[j].Name # nm].Value]

\* ParamValues.AsSlice: the values, in the list's order
AsSlice(ps) == [i \in 1..Len(ps) |-> ps[i].Value]

\* tools.GetParams: one pair per declared parameter, in declared order;
\* fails on a declared name the map does not hold
GetParams(declared, paramsMap) ==
  IF \E i \in 1..Len(declared) : declared[i] \notin DOMAIN paramsMap
  THEN [ok |-> FALSE, vals |-> <<>>]
  ELSE [ok |-> TRUE,
        vals |-> [i \in 1..Len(declared) |->
                    [Name |-> declared[i], Value |-> paramsMap[declared[i]]]]]

\* text/template's output for one field of the template's data
TemplateField(tmap, nm) == IF nm \in DOMAIN tmap THEN tmap[nm].s ELSE <<NoValue>>

\* tools.ResolveTemplateParams: the statement executed as a Go template over
\* the declared template parameters only, their values inserted verbatim
ResolveTemplateParams(templateParams, statement, paramsMap) ==
  LET tp == GetParams(templateParams, paramsMap)
      tmap == AsMap(tp.vals)
  IN IF ~tp.ok THEN [ok |-> FALSE, stmt |-> <<>>]
     ELSE [ok |-> TRUE,
           stmt |-> Concat([i \in 1..Len(statement) |->
                      IF statement[i] \in TemplateTokens
                      THEN TemplateField(tmap, TokName(statement[i]))
                      ELSE <<statement[i]>>])]

(***************************************************************************)
(* mindsdb-sql: interpolateParams                                          *)
(***************************************************************************)
RECURSIVE escapeQuotes(_)
escapeQuotes(s) ==
  IF s = <<>> THEN <<>>
  ELSE (IF Head(s) = Quote THEN <<Quote, Quote>> ELSE <<Head(s)>>)
       \o escapeQuotes(Tail(s))

\* the type switch with the string case not escaping quotes
replacementUnescaped(param) ==
  CASE param.type = "nil" -> <<"N", "U", "L", "L">>
    [] param.type = "string" -> <<Quote>> \o param.s \o <<Quote>>
    [] param.type = "int" -> FormatInt(param.n)
    [] param.type = "uint" -> FormatInt(param.n)
    [] param.type = "float" -> FormatFloat(param.n)
    [] param.type = "bool" -> IF param.n = 1 THEN <<"1">> ELSE <<"0">>
    [] OTHER -> <<Quote>> \o escapeQuotes(param.s) \o <<Quote>>

\* the type switch: the replacement text of one parameter
replacement(param) ==
  CASE param.type = "nil" -> <<"N", "U", "L", "L">>
    [] param.type = "string" -> <<Quote>> \o escapeQuotes(param.s) \o <<Quote>>
    [] param.type = "int" -> FormatInt(param.n)
    [] param.type = "uint" -> FormatInt(param.n)
    [] param.type = "float" -> FormatFloat(param.n)
    [] param.type = "bool" -> IF param.n = 1 THEN <<"1">> ELSE <<"0">>
    [] OTHER -> <<Quote>> \o escapeQuotes(param.s) \o <<Quote>>

\* index of the first ? of result, 0 when there is none
FirstPlaceholder(result) ==
  IF \E i \in 1..Len(result) : result[i] = Placeholder
  THEN CHOOSE i \in 1..Len(result) :
         /\ result[i] = Placeholder
         /\ \A j \in 1..(i-1) : result[j] # Placeholder
  ELSE 0

RECURSIVE interpolateLoop(_, _, _)
interpolateLoop(result, ps, paramIndex) ==
  IF paramIndex > Len(ps) THEN result
  ELSE LET idx == FirstPlaceholder(result)
       IN IF idx = 0 THEN result
          ELSE interpolateLoop(SubSeq(result, 1, idx - 1)
                                 \o replacement(ps[paramIndex])
                                 \o SubSeq(result, idx + 1, Len(result)),
                               ps, paramIndex + 1)

interpolateParams(query, ps) == interpolateLoop(query, ps, 1)

(***************************************************************************)
(* Result sets of the driver                                               *)
(***************************************************************************)
DQ == "\""

BytesV(s) == [type |-> "bytes", s |-> s, n |-> 0]

Layouts ==
  { [cols |-> <<"id", "name">>, types |-> <<"INT", "VARCHAR">>],
    [cols |-> <<"name", "email">>, types |-> <<"TEXT", "JSON">>],
    [cols |-> <<"id", "id">>, types |-> <<"BIGINT", "NVARCHAR">>] }

\* what the driver scans into an *any for a column of a type
CellValues(typ) ==
  CASE typ \in {"INT", "BIGINT"} -> {Nil, IntV(1), IntV(2)}
    [] typ = "JSON" -> {Nil, BytesV(<<"1", "2">>), BytesV(<<DQ, "a", DQ>>), BytesV(<<"{">>)}
    [] OTHER -> {Nil, BytesV(<<"a">>), BytesV(<<>>)}

RowsOf(l) ==
  {r \in [1..Len(l.cols) -> UNION {CellValues(l.types[i]) : i \in 1..Len(l.cols)}] :
     \A i \in 1..Len(l.cols) : r[i] \in CellValues(l.types[i])}

RowSeqs(l) == UNION {[1..k -> RowsOf(l)] : k \in 0..MaxRows}

DBs == UNION { { [cols |-> l.cols, types |-> l.types, rows |-> rs] : rs \in RowSeqs(l) } :
               l \in Layouts }

FewDBs ==
  { [cols |-> <<"id", "name">>, types |-> <<"INT", "VARCHAR">>, rows |-> <<>>],
    [cols |-> <<"name", "email">>, types |-> <<"TEXT", "JSON">>,
     rows |-> << <<BytesV(<<"a">>), BytesV(<<"1", "2">>)>>, <<Nil, BytesV(<<"{">>)>> >>] }

IsDigit(c) == c \in {"0", "1", "2", "3", "4", "5", "6", "7", "8", "9"}

DigitValue(c) == CHOOSE d \in 0..9 : Digit(d) = c

RECURSIVE ParseNat(_)
ParseNat(s) == IF s = <<>> THEN 0
               ELSE 10 * ParseNat(SubSeq(s, 1, Len(s) - 1)) + DigitValue(s[Len(s)])

\* json.Unmarshal(val.([]byte), &unmarshaledData) on the JSON texts of the
\* model: null, a number (a float64, held in tenths), a string; else an error
jsonUnmarshal(b) ==
  IF b = <<"n", "u", "l", "l">> THEN [ok |-> TRUE, v |-> Nil]
  ELSE IF /\ Len(b) >= 1
          /\ \A i \in 1..Len(b) : IsDigit(b[i])
          /\ (Len(b) = 1 \/ b[1] # "0")
       THEN [ok |-> TRUE, v |-> FloatV(10 * ParseNat(b))]
  ELSE IF /\ Len(b) >= 2
          /\ b[1] = DQ /\ b[Len(b)] = DQ
          /\ \A i \in 2..(Len(b) - 1) : b[i] \notin {DQ, Backslash}
       THEN [ok |-> TRUE, v |-> StrV(SubSeq(b, 2, Len(b) - 1))]
  ELSE [ok |-> FALSE, v |-> Nil]

\* the switch without the JSON case: the JSON text is kept as a string
convertValueNoUnmarshal(typ, val) ==
  CASE typ \in {"JSON", "TEXT", "VARCHAR", "NVARCHAR"} -> [ok |-> TRUE, v |-> StrV(val.s)]
    [] OTHER -> [ok |-> TRUE, v |-> val]

\* tidb-sql: the switch on colTypes[i].DatabaseTypeName()
convertValue(typ, val) ==
  CASE typ = "JSON" -> jsonUnmarshal(val.s)
    [] typ \in {"TEXT", "VARCHAR", "NVARCHAR"} -> [ok |-> TRUE, v |-> StrV(val.s)]
    [] OTHER -> [ok |-> TRUE, v |-> val]

\* mysqlcommon.ConvertToType (mindsdb-sql): JSON is unmarshalled, byte-slice
\* text is coerced to a string
ConvertToType(typ, val) ==
  IF val.type = "bytes"
  THEN (IF typ = "JSON" THEN jsonUnmarshal(val.s) ELSE [ok |-> TRUE, v |-> StrV(val.s)])
  ELSE [ok |-> TRUE, v |-> val]

\* the value stored under a column's name for one scanned cell
cellValue(kind, typ, val) ==
  IF kind = "postgres-execute-sql" THEN [ok |-> TRUE, v |-> val]
  ELSE IF val = Nil THEN [ok |-> TRUE, v |-> Nil]
  ELSE IF kind = "mindsdb-sql" THEN ConvertToType(typ, val)
  ELSE convertValue(typ, val)

\* the loop over cols keeping the first column of a name
rowMapFirstWins(kind, cols, types, raw) ==
  [nm \in {cols[i] : i \in 1..Len(cols)} |->
     LET i == CHOOSE i \in 1..Len(cols) :
                /\ cols[i] = nm
                /\ \A j \in 1..(i-1) : cols[j] # nm
     IN cellValue(kind, types[i], raw[i]).v]

\* the loop over cols skipping a NULL without storing it
rowMapSkipNull(kind, cols, types, raw) ==
  [nm \in {cols[i] : i \in 1..Len(cols)} \ {cols[i] : i \in {j \in 1..Len(cols) : raw[j] = Nil}} |->
     LET i == CHOOSE i \in 1..Len(cols) :
                /\ cols[i] = nm
                /\ \A j \in (i+1)..Len(cols) : cols[j] # nm
     IN cellValue(kind, types[i], raw[i]).v]

\* vMap after the loop over cols: a later column of the same name overwrites
rowMap(kind, cols, types, raw) ==
  [nm \in {cols[i] : i \in 1..Len(cols)} |->
     LET i == CHOOSE i \in 1..Len(cols) :
                /\ cols[i] = nm
                /\ \A j \in (i+1)..Len(cols) : cols[j] # nm
     IN cellValue(kind, types[i], raw[i]).v]

\* whether the loop over cols returns an error for this row
rowFails(kind, cols, types, raw) ==
  \E i \in 1..Len(cols) : ~cellValue(kind, types[i], raw[i]).ok

\* a scan that leaves the buffer's element alone for a NULL
scanIntoKeepOnNull(buffer, row) ==
  [i \in 1..Len(buffer) |-> IF row[i] = Nil THEN buffer[i] ELSE row[i]]

\* results.Scan(values...), values[i] = &rawValues[i]: every element of the
\* buffer is assigned, nil for a NULL
scanInto(buffer, row) == [i \in 1..Len(buffer) |-> row[i]]

\* the row put in front of the rows already materialised
prependRow(o, vMap) == <<vMap>> \o o

\* out = append(out, vMap)
appendRow(o, vMap) == Append(o, vMap)

(***************************************************************************)
(* Tool.Invoke, step by step                                               *)
(***************************************************************************)
\* Invoke with the standard parameters extracted before the template is resolved
StepsParamsFirst(kind) ==
  CASE kind = "tidb-sql" ->
         <<"params", "template", "query", "columns", "coltypes", "rows">>
    [] kind = "mindsdb-sql" ->
         <<"params", "template", "interpolate", "query", "columns", "coltypes", "rows">>
    [] OTHER -> <<"slice", "query", "fields", "rows">>

\* Invoke with the query issued before the standard parameters are extracted
StepsQueryFirst(kind) ==
  CASE kind = "tidb-sql" ->
         <<"template", "query", "params", "columns", "coltypes", "rows">>
    [] kind = "mindsdb-sql" ->
         <<"template", "query", "params", "interpolate", "columns", "coltypes", "rows">>
    [] OTHER -> <<"slice", "query", "fields", "rows">>

\* the statements of Invoke in source order, per tool kind
Steps(kind) ==
  CASE kind = "tidb-sql" ->
         <<"template", "params", "query", "columns", "coltypes", "rows">>
    [] kind = "mindsdb-sql" ->
         <<"template", "params", "interpolate", "query", "columns", "coltypes", "rows">>
    [] OTHER -> <<"slice", "query", "fields", "rows">>

At(step) == pc > 0 /\ Steps(tool.kind)[pc] = step

Unset == [set |-> FALSE, v |-> <<>>]
Set(v) == [set |-> TRUE, v |-> v]

NotReturned == [returned |-> FALSE, err |-> "", isNil |-> TRUE, rows |-> <<>>]

\* return nil, fmt.Errorf(prefix ...)
ReturnErr(prefix) == [returned |-> TRUE, err |-> prefix, isNil |-> TRUE, rows |-> <<>>]

\* return out, nil with out made as an empty list
ReturnOutEmptyList(o) == [returned |-> TRUE, err |-> "", isNil |-> FALSE, rows |-> o]

\* return out, nil: out is a nil slice until the first append
ReturnOut(o) == [returned |-> TRUE, err |-> "", isNil |-> o = <<>>, rows |-> o]

errTemplate == "unable to extract template params"
errParams == "unable to extract standard params"
errCast == "unable to get cast"
errQuery == "unable to execute query"
errColumns == "unable to retrieve rows column name"
errColTypes == "unable to get column types"
errScan == "unable to parse row"
errUnmarshal == "unable to unmarshal json data"
errConvert == "errors encountered when converting values"
errIter == "errors encountered during row iteration"
panicIndex == "panic: index out of range"

\* Invoke handing every parameter of the tool (AllParams) to tools.GetParams
standardParamsAll(t) == t.TemplateParameters \o t.Parameters

\* the parameters Invoke hands to tools.GetParams
standardParams(t) == t.Parameters

\* tidb-sql writing the arguments into the statement text, as mindsdb-sql does
queryTextInterpolated(t, newStmt, finalStmt, slice) ==
  CASE t.kind = "tidb-sql" -> interpolateParams(newStmt, slice)
    [] t.kind = "mindsdb-sql" -> finalStmt
    [] OTHER -> slice[1].s

\* the statement and the arguments Invoke hands to the driver's query call
queryText(t, newStmt, finalStmt, slice) ==
  CASE t.kind = "tidb-sql" -> newStmt
    [] t.kind = "mindsdb-sql" -> finalStmt
    [] OTHER -> slice[1].s

queryArgs(t, slice) == IF t.kind = "tidb-sql" THEN slice ELSE <<>>

\* what Invoke returns when results.Next() ends on a driver error: tidb-sql
\* and mindsdb-sql read results.Err(), postgres-execute-sql does not
iterErrReturn(kind, o) == IF kind \in SqlKinds THEN ReturnErr(errIter) ELSE ReturnOut(o)

\* no result set yet, and no deferred call
NoResults == [state |-> "none", deferClose |-> FALSE]

\* the query returned a result set
Opened == [state |-> "open", deferClose |-> FALSE]

\* defer results.Close()
DeferClose(rs) == [rs EXCEPT !.deferClose = TRUE]

\* the result set once results.Next() has reported false: the driver has closed it
AfterLastNext(rs) == IF rs.state = "open" THEN [rs EXCEPT !.state = "closed"] ELSE rs

\* the deferred calls run when Invoke returns
AtReturn(rs) ==
  IF rs.deferClose /\ rs.state = "open" THEN [rs EXCEPT !.state = "closed"] ELSE rs

\* the locals of an invocation that is not there
NoInvocation ==
  [params |-> <<>>, db |-> [cols |-> <<>>, types |-> <<>>, rows |-> <<>>], pc |-> 0,
   newStatement |-> Unset, sliceParams |-> Unset, finalStatement |-> Unset,
   calls |-> <<>>, yielded |-> 0, rawValues |-> <<>>, out |-> <<>>,
   ret |-> NotReturned, failure |-> "", results |-> NoResults]

\* a map without keys
EmptyMap == [n \in {} |-> 0]

NoErr == [msg |-> "", tool |-> "", kind |-> "", fields |-> {}]

\* the tools are built already: nothing is being loaded
NotLoading ==
  /\ file = EmptyMap
  /\ srcs = EmptyMap
  /\ toolConfigs = EmptyMap
  /\ toolsMap = EmptyMap
  /\ loadErr = NoErr
  /\ phase = "ready"

NotListed == [done |-> FALSE, err |-> "", names |-> {}]

BqNotReturned == [returned |-> FALSE, err |-> "", metadata |-> ""]

\* neither list_tables nor bigquery-get-dataset-info is invoked
NoOtherTool ==
  /\ tableNames = [given |-> FALSE, v |-> <<>>]
  /\ listed = NotListed
  /\ bqProject = ""
  /\ bqData = <<>>
  /\ bqParams = Unset
  /\ bqCalls = <<>>
  /\ bqRet = BqNotReturned

\* no invocation of looker-make-look
NoLooks ==
  /\ lookerLooks = <<>>
  /\ lookerQueries = <<>>
  /\ mk = <<>>

\* no package init function is running
NoneRegistering ==
  /\ toolRegistry = EmptyMap
  /\ pendingInits = EmptyMap
  /\ panicked = ""

\* interpolateParams is not running
NotInterpolating ==
  /\ ipQuery = <<>>
  /\ ipParams = <<>>
  /\ ipResult = <<>>
  /\ ipParamIndex = 0
  /\ ipReplaced = 0
  /\ ipReturned = FALSE

NoRequest == [proto |-> "", name |-> "", tokens |-> EmptyMap, params |-> <<>>]

NoResponse == [status |-> 0, rpcError |-> "", isError |-> FALSE, text |-> "", rows |-> <<>>]

\* Invoke is called directly: no request is being handled
NotServing ==
  /\ request = NoRequest
  /\ response = NoResponse
  /\ handler = "idle"

Init ==
  /\ tool \in Tools
  /\ params \in Requests
  /\ db \in FewDBs
  /\ pc = 1
  /\ newStatement = Unset
  /\ sliceParams = Unset
  /\ finalStatement = Unset
  /\ calls = <<>>
  /\ yielded = 0
  /\ rawValues = <<>>
  /\ out = <<>>
  /\ ret = NotReturned
  /\ failure = ""
  /\ results = NoResults
  /\ parked = NoInvocation
  /\ NotLoading
  /\ NotServing
  /\ NoOtherTool
  /\ NoLooks
  /\ NoneRegistering
  /\ NotInterpolating

RowTools == {t \in Tools : t.kind \notin SqlKinds \/ Len(t.Parameters) = 2}

InitRows ==
  /\ tool \in RowTools
  /\ params \in FewRequests
  /\ db \in DBs
  /\ pc = 1
  /\ newStatement = Unset
  /\ sliceParams = Unset
  /\ finalStatement = Unset
  /\ calls = <<>>
  /\ yielded = 0
  /\ rawValues = <<>>
  /\ out = <<>>
  /\ ret = NotReturned
  /\ failure = ""
  /\ results = NoResults
  /\ parked = NoInvocation
  /\ NotLoading
  /\ NotServing
  /\ NoOtherTool
  /\ NoLooks
  /\ NoneRegistering
  /\ NotInterpolating

\* Invoke writing the resolved statement back into the tool
configAfterResolveOverwrite(t, stmt) == [t EXCEPT !.Statement = stmt]

\* the tool after the template is resolved: Invoke has a value receiver and
\* assigns the resolved statement to the local newStatement only
configAfterResolve(t, stmt) == t

ReturnAfter(rs, r) ==
  /\ ret' = r
  /\ pc' = 0
  /\ failure' = failure
  /\ results' = AtReturn(rs)
  /\ UNCHANGED otherVars

Return(r) == ReturnAfter(results, r)

\* a return after the driver, or the conversion of a value, reported an error
ReturnFailureAfter(rs, what, r) ==
  /\ ret' = r
  /\ pc' = 0
  /\ failure' = what
  /\ results' = AtReturn(rs)
  /\ UNCHANGED otherVars

ReturnFailure(what, r) == ReturnFailureAfter(results, what, r)

\* the next statement, with the result set as the statement leaves it
ContinueWith(rs) ==
  /\ pc' = pc + 1
  /\ ret' = ret
  /\ failure' = failure
  /\ results' = rs
  /\ UNCHANGED otherVars

Continue == ContinueWith(results)

ResolveTemplateOk ==
  /\ At("template")
  /\ LET r == ResolveTemplateParams(tool.TemplateParameters, tool.Statement, AsMap(params))
     IN /\ r.ok
        /\ newStatement' = Set(r.stmt)
        /\ tool' = configAfterResolve(tool, r.stmt)
  /\ Continue
  /\ UNCHANGED <<params, db, sliceParams, finalStatement, calls, yielded, rawValues, out>>

ResolveTemplateErr ==
  /\ At("template")
  /\ ~ResolveTemplateParams(tool.TemplateParameters, tool.Statement, AsMap(params)).ok
  /\ Return(ReturnErr(errTemplate))
  /\ UNCHANGED <<tool, params, db, newStatement, sliceParams, finalStatement, calls,
                 yielded, rawValues, out>>

GetParamsOk ==
  /\ At("params")
  /\ LET r == GetParams(standardParams(tool), AsMap(params))
     IN /\ r.ok
        /\ sliceParams' = Set(AsSlice(r.vals))
  /\ Continue
  /\ UNCHANGED <<tool, params, db, newStatement, finalStatement, calls, yielded, rawValues, out>>

GetParamsErr ==
  /\ At("params")
  /\ ~GetParams(standardParams(tool), AsMap(params)).ok
  /\ Return(ReturnErr(errParams))
  /\ UNCHANGED <<tool, params, db, newStatement, sliceParams, finalStatement, calls,
                 yielded, rawValues, out>>

\* mindsdb-sql: interpolateParams never returns an error
Interpolate ==
  /\ At("interpolate")
  /\ finalStatement' = Set(interpolateParams(newStatement.v, sliceParams.v))
  /\ Continue
  /\ UNCHANGED <<tool, params, db, newStatement, sliceParams, calls, yielded, rawValues, out>>

\* postgres-execute-sql: sliceParams := params.AsSlice(); sliceParams[0].(string)
SliceOk ==
  /\ At("slice")
  /\ Len(params) > 0
  /\ params[1].Value.type = "string"
  /\ sliceParams' = Set(AsSlice(params))
  /\ Continue
  /\ UNCHANGED <<tool, params, db, newStatement, finalStatement, calls, yielded, rawValues, out>>

SliceCastErr ==
  /\ At("slice")
  /\ Len(params) > 0
  /\ params[1].Value.type # "string"
  /\ Return(ReturnErr(errCast))
  /\ UNCHANGED <<tool, params, db, newStatement, sliceParams, finalStatement, calls,
                 yielded, rawValues, out>>

SlicePanic ==
  /\ At("slice")
  /\ Len(params) = 0
  /\ Return(ReturnErr(panicIndex))
  /\ UNCHANGED <<tool, params, db, newStatement, sliceParams, finalStatement, calls,
                 yielded, rawValues, out>>

Call == [stmt |-> queryText(tool, newStatement.v, finalStatement.v, sliceParams.v),
         args |-> queryArgs(tool, sliceParams.v)]

\* Pool.QueryContext / Pool.Query succeeds
QueryOk ==
  /\ At("query")
  /\ calls' = Append(calls, Call)
  /\ ContinueWith(Opened)
  /\ UNCHANGED <<tool, params, db, newStatement, sliceParams, finalStatement, yielded,
                 rawValues, out>>

\* the driver reports an error for the query
QueryErr ==
  /\ At("query")
  /\ calls' = Append(calls, Call)
  /\ ReturnFailure("query", ReturnErr(errQuery))
  /\ UNCHANGED <<tool, params, db, newStatement, sliceParams, finalStatement, yielded,
                 rawValues, out>>

\* results.Columns(), then the scan buffer is allocated
ColumnsOk ==
  /\ At("columns")
  /\ rawValues' = [i \in 1..Len(db.cols) |-> Nil]
  /\ ContinueWith(DeferClose(results))
  /\ UNCHANGED <<tool, params, db, newStatement, sliceParams, finalStatement, calls, yielded, out>>

ColumnsErr ==
  /\ At("columns")
  /\ ReturnFailure("columns", ReturnErr(errColumns))
  /\ UNCHANGED <<tool, params, db, newStatement, sliceParams, finalStatement, calls,
                 yielded, rawValues, out>>

ColumnTypesOk ==
  /\ At("coltypes")
  /\ Continue
  /\ UNCHANGED <<tool, params, db, newStatement, sliceParams, finalStatement, calls,
                 yielded, rawValues, out>>

ColumnTypesErr ==
  /\ At("coltypes")
  /\ ReturnFailure("coltypes", ReturnErr(errColTypes))
  /\ UNCHANGED <<tool, params, db, newStatement, sliceParams, finalStatement, calls,
                 yielded, rawValues, out>>

\* postgres-execute-sql: results.FieldDescriptions()
FieldDescriptions ==
  /\ At("fields")
  /\ Continue
  /\ UNCHANGED <<tool, params, db, newStatement, sliceParams, finalStatement, calls,
                 yielded, rawValues, out>>

\* the values of the next row as the loop body reads them: the scan buffer of
\* tidb-sql and mindsdb-sql, the slice results.Values() returns otherwise
scanned ==
  IF tool.kind \in SqlKinds
  THEN scanInto(rawValues, db.rows[yielded + 1])
  ELSE db.rows[yielded + 1]

\* results.Next() is true, the row is scanned and converted, vMap is appended
NextRow ==
  /\ At("rows")
  /\ yielded < Len(db.rows)
  /\ yielded' = yielded + 1
  /\ rawValues' = scanned
  /\ IF rowFails(tool.kind, db.cols, db.types, scanned)
     THEN /\ ReturnFailure("convert", ReturnErr(IF tool.kind = "tidb-sql" THEN errUnmarshal ELSE errConvert))
          /\ out' = out
     ELSE /\ out' = appendRow(out, rowMap(tool.kind, db.cols, db.types, scanned))
          /\ pc' = pc
          /\ ret' = ret
          /\ failure' = failure
          /\ results' = results
          /\ UNCHANGED otherVars
  /\ UNCHANGED <<tool, params, db, newStatement, sliceParams, finalStatement, calls>>

\* results.Next() is true, results.Scan / results.Values returns an error
ScanErr ==
  /\ At("rows")
  /\ yielded < Len(db.rows)
  /\ yielded' = yielded + 1
  /\ ReturnFailure("scan", ReturnErr(errScan))
  /\ UNCHANGED <<tool, params, db, newStatement, sliceParams, finalStatement, calls,
                 rawValues, out>>

\* results.Next() is false because the driver failed: tidb-sql and mindsdb-sql
\* read results.Err(), postgres-execute-sql returns what it has
IterErr ==
  /\ At("rows")
  /\ ReturnFailureAfter(AfterLastNext(results), "iter", iterErrReturn(tool.kind, out))
  /\ UNCHANGED <<tool, params, db, newStatement, sliceParams, finalStatement, calls,
                 yielded, rawValues, out>>

\* results.Next() is false at the end of the rows
Finish ==
  /\ At("rows")
  /\ yielded = Len(db.rows)
  /\ ReturnAfter(AfterLastNext(results), ReturnOut(out))
  /\ UNCHANGED <<tool, params, db, newStatement, sliceParams, finalStatement, calls,
                 yielded, rawValues, out>>

Next ==
  \/ ResolveTemplateOk \/ ResolveTemplateErr
  \/ GetParamsOk \/ GetParamsErr
  \/ Interpolate
  \/ SliceOk \/ SliceCastErr \/ SlicePanic
  \/ QueryOk \/ QueryErr
  \/ ColumnsOk \/ ColumnsErr
  \/ ColumnTypesOk \/ ColumnTypesErr
  \/ FieldDescriptions
  \/ NextRow \/ ScanErr \/ IterErr \/ Finish

Spec == Init /\ [][Next]_vars

\* the locals of the running invocation, as a record
Running ==
  [params |-> params, db |-> db, pc |-> pc, newStatement |-> newStatement,
   sliceParams |-> sliceParams, finalStatement |-> finalStatement, calls |-> calls,
   yielded |-> yielded, rawValues |-> rawValues, out |-> out, ret |-> ret,
   failure |-> failure, results |-> results]

\* two concurrent calls of Invoke on the same Tool: the scheduler runs the
\* other goroutine
Switch ==
  /\ parked # NoInvocation
  /\ parked' = Running
  /\ params' = parked.params
  /\ db' = parked.db
  /\ pc' = parked.pc
  /\ newStatement' = parked.newStatement
  /\ sliceParams' = parked.sliceParams
  /\ finalStatement' = parked.finalStatement
  /\ calls' = parked.calls
  /\ yielded' = parked.yielded
  /\ rawValues' = parked.rawValues
  /\ out' = parked.out
  /\ ret' = parked.ret
  /\ failure' = parked.failure
  /\ results' = parked.results
  /\ UNCHANGED <<tool, loading, serving, listing, metadata, looker, registering, interpolating>>

Started(ps, d) ==
  [params |-> ps, db |-> d, pc |-> 1, newStatement |-> Unset, sliceParams |-> Unset,
   finalStatement |-> Unset, calls |-> <<>>, yielded |-> 0, rawValues |-> <<>>,
   out |-> <<>>, ret |-> NotReturned, failure |-> "", results |-> NoResults]

\* the requests of the two concurrent calls: their values differ too
ConcRequests ==
  FewRequests \cup {Request(<<"t", "p1", "p2">>, StrV(<<"b">>), StrV(<<"b">>), IntV(3))}

InitConc ==
  /\ tool \in RowTools
  /\ params \in ConcRequests
  /\ db \in FewDBs
  /\ pc = 1
  /\ newStatement = Unset
  /\ sliceParams = Unset
  /\ finalStatement = Unset
  /\ calls = <<>>
  /\ yielded = 0
  /\ rawValues = <<>>
  /\ out = <<>>
  /\ ret = NotReturned
  /\ failure = ""
  /\ results = NoResults
  /\ parked \in {Started(ps, d) : ps \in ConcRequests, d \in FewDBs}
  /\ NotLoading
  /\ NotServing
  /\ NoOtherTool
  /\ NoLooks
  /\ NoneRegistering
  /\ NotInterpolating

NextConc == Next \/ Switch

SpecConc == InitConc /\ [][NextConc]_vars

SpecRows == InitRows /\ [][Next]_vars

(***************************************************************************)
(* Properties                                                              *)
(***************************************************************************)
Range(s) == {s[i] : i \in 1..Len(s)}

HasTemplateToken(stmt) == \E i \in 1..Len(stmt) : stmt[i] \in TemplateTokens

\* C1: in tidb-sql and mindsdb-sql, the standard parameters are extracted,
\* interpolated or bound only after template substitution has completed, and
\* every statement handed to the driver is the template-substituted one: it
\* is (tidb-sql) or derives from (mindsdb-sql) newStatement and holds no
\* unresolved template placeholder.
C1_TemplateBeforeBinding ==
  tool.kind \in SqlKinds =>
    /\ sliceParams.set => newStatement.set
    /\ finalStatement.set => newStatement.set /\ sliceParams.set
    /\ \A i \in 1..Len(calls) :
         /\ newStatement.set
         /\ ~HasTemplateToken(calls[i].stmt)
         /\ tool.kind = "tidb-sql" => calls[i].stmt = newStatement.v
         /\ tool.kind = "mindsdb-sql" =>
              finalStatement.set /\ calls[i].stmt = finalStatement.v

C1_Witness ==
  /\ tool.kind \in SqlKinds
  /\ HasTemplateToken(tool.Statement)
  /\ Len(calls) = 1
  /\ Len(sliceParams.v) = 2
  /\ Placeholder \in Range(AsMap(params)["t"].s)

\* the number of ? among the first i tokens of q
RECURSIVE CountPlaceholders(_, _)
CountPlaceholders(q, i) ==
  IF i = 0 THEN 0
  ELSE CountPlaceholders(q, i - 1) + (IF q[i] = Placeholder THEN 1 ELSE 0)

\* query with its k-th ? replaced by the rendering of the k-th parameter
ReplaceEach(q, ps) ==
  Concat([i \in 1..Len(q) |->
            IF q[i] = Placeholder /\ CountPlaceholders(q, i) <= Len(ps)
            THEN replacement(ps[CountPlaceholders(q, i)])
            ELSE <<q[i]>>])

\* C2: interpolateParams replaces the k-th ? of the input query with the
\* rendering of the k-th parameter, for every k up to min(number of ?,
\* len(params)), and leaves every other character unchanged, whatever the
\* parameter values are (a string holding a ? included).
C2_EachPlaceholderReplaced ==
  finalStatement.set =>
    finalStatement.v = ReplaceEach(newStatement.v, sliceParams.v)

\* index of the quote closing the single-quoted literal whose body starts at
\* s[i] (a doubled quote is an escaped quote), 0 when it is not closed
RECURSIVE LiteralEnd(_, _)
LiteralEnd(s, i) ==
  IF i > Len(s) THEN 0
  ELSE IF s[i] # Quote THEN LiteralEnd(s, i + 1)
  ELSE IF i + 1 <= Len(s) /\ s[i + 1] = Quote THEN LiteralEnd(s, i + 2)
  ELSE i

\* s is exactly one single-quoted SQL string literal
IsLiteral(s) == Len(s) >= 2 /\ s[1] = Quote /\ LiteralEnd(s, 2) = Len(s)

Min(a, b) == IF a < b THEN a ELSE b

\* two statements are identical outside one single-quoted literal
SameOutsideLiteral(f, g) ==
  \/ f = g
  \/ \E n \in 0..Min(Len(f), Len(g)) : \E m \in 0..(Min(Len(f), Len(g)) - n) :
       /\ SubSeq(f, 1, n) = SubSeq(g, 1, n)
       /\ SubSeq(f, Len(f) - m + 1, Len(f)) = SubSeq(g, Len(g) - m + 1, Len(g))
       /\ IsLiteral(SubSeq(f, n + 1, Len(f) - m))
       /\ IsLiteral(SubSeq(g, n + 1, Len(g) - m))

\* C3: for mindsdb-sql, two invocations of the same tool that differ only in
\* the value of one string parameter send statements that are identical
\* outside the single-quoted literal generated for that parameter (quotes
\* read as in standard SQL: only a doubled quote is an escaped quote).
C3_StringNeverChangesStructure ==
  (tool.kind = "mindsdb-sql" /\ finalStatement.set) =>
    \A k \in 1..Len(sliceParams.v) :
      sliceParams.v[k].type = "string" =>
        \A s2 \in Strings(MaxStrLen) :
          SameOutsideLiteral(
            finalStatement.v,
            interpolateParams(newStatement.v,
                              [sliceParams.v EXCEPT ![k] = StrV(s2)]))

\* the text a doubled-quote escaped body stands for; not ok on a lone quote
RECURSIVE Undouble(_)
Undouble(s) ==
  IF s = <<>> THEN [ok |-> TRUE, s |-> <<>>]
  ELSE IF Head(s) # Quote
       THEN LET r == Undouble(Tail(s)) IN [ok |-> r.ok, s |-> <<Head(s)>> \o r.s]
  ELSE IF Len(s) >= 2 /\ s[2] = Quote
       THEN LET r == Undouble(Tail(Tail(s))) IN [ok |-> r.ok, s |-> <<Quote>> \o r.s]
  ELSE [ok |-> FALSE, s |-> <<>>]

\* lit is s between single quotes with every single quote of s doubled
IsQuoted(s, lit) ==
  /\ Len(lit) >= 2
  /\ lit[1] = Quote /\ lit[Len(lit)] = Quote
  /\ Undouble(SubSeq(lit, 2, Len(lit) - 1)) = [ok |-> TRUE, s |-> s]

\* lit is the decimal digits of n, without quotes
IsDecimal(n, lit) ==
  LET digits == IF n < 0 THEN Tail(lit) ELSE lit
  IN /\ lit # <<>>
     /\ n < 0 => lit[1] = "-"
     /\ digits # <<>>
     /\ \A i \in 1..Len(digits) : IsDigit(digits[i])
     /\ Len(digits) > 1 => digits[1] # "0"
     /\ ParseNat(digits) = (IF n < 0 THEN 0 - n ELSE n)

\* lit is the float t (in tenths) written out, without quotes
IsFloatText(t, lit) ==
  LET a == IF t < 0 THEN 0 - t ELSE t
      body == IF t < 0 THEN Tail(lit) ELSE lit
  IN /\ lit # <<>>
     /\ t < 0 => lit[1] = "-"
     /\ Quote \notin Range(lit)
     /\ IF a % 10 = 0
        THEN IsDecimal(a \div 10, body)
        ELSE /\ Len(body) >= 3
             /\ body[Len(body) - 1] = "."
             /\ IsDecimal(a \div 10, SubSeq(body, 1, Len(body) - 2))
             /\ IsDecimal(a % 10, <<body[Len(body)]>>)

\* lit is the SQL literal the type of p calls for
RendersAs(p, lit) ==
  CASE p.type = "nil" -> lit = <<"N", "U", "L", "L">>
    [] p.type = "string" -> IsQuoted(p.s, lit)
    [] p.type \in {"int", "uint"} -> IsDecimal(p.n, lit)
    [] p.type = "float" -> IsFloatText(p.n, lit)
    [] p.type = "bool" -> lit = (IF p.n = 1 THEN <<"1">> ELSE <<"0">>)
    [] OTHER -> IsQuoted(p.s, lit)

\* C4: interpolateParams renders a parameter by its type: nil as NULL, a
\* string (and any other type's default string form) between single quotes
\* with its quotes doubled, an integer as its decimal digits, a float written
\* out unquoted, a boolean as 1 or 0.  Checked on the statement produced for
\* one parameter: the text that took the place of the first ? is that literal
\* and the rest of the statement is unchanged.
C4_LiteralByType ==
  (finalStatement.set /\ Len(sliceParams.v) = 1
     /\ FirstPlaceholder(newStatement.v) > 0) =>
    LET q == newStatement.v
        f == finalStatement.v
        idx == FirstPlaceholder(q)
        last == Len(f) - (Len(q) - idx)
    IN /\ last >= idx
       /\ SubSeq(f, 1, idx - 1) = SubSeq(q, 1, idx - 1)
       /\ SubSeq(f, last + 1, Len(f)) = SubSeq(q, idx + 1, Len(q))
       /\ RendersAs(sliceParams.v[1], SubSeq(f, idx, last))

C4_Witness ==
  /\ finalStatement.set
  /\ Len(calls) = 1
  /\ Len(sliceParams.v) = 1
  /\ sliceParams.v[1] = StrV(<<Quote, "a">>)
  /\ finalStatement.v = <<Quote, Quote, Quote, "a", Quote, NoValue>>

AltValues == Values2 \cup {StrV(<<Quote, "a">>)}

\* the requests that differ from ps only in values of parameters not in tps
AltRequests(ps, tps) ==
  { [i \in 1..Len(ps) |->
       [Name |-> ps[i].Name,
        Value |-> IF ps[i].Name \in Range(tps) THEN ps[i].Value ELSE f[i]]] :
    f \in [1..Len(ps) -> AltValues] }

\* C5: for tidb-sql no standard parameter value is written into the SQL text:
\* the statement handed to the driver is the same for every request with the
\* same template-parameter values, and the values travel in the bound
\* argument list.
C5_StatementIndependentOfValues ==
  (tool.kind = "tidb-sql" /\ Len(calls) = 1
     /\ (At("columns") \/ ret.err = "unable to execute query")) =>
    /\ calls[1].args = sliceParams.v
    /\ \A alt \in AltRequests(params, tool.TemplateParameters) :
         calls[1].stmt =
           ResolveTemplateParams(tool.TemplateParameters, tool.Statement, AsMap(alt)).stmt

C5_Witness ==
  /\ tool.kind = "tidb-sql"
  /\ Len(calls) = 1
  /\ At("columns")
  /\ calls[1].stmt = <<"a", Placeholder, "a", Placeholder>>
  /\ calls[1].args = <<StrV(<<Quote, Placeholder>>), StrV(<<"a">>)>>

\* C6: the argument list bound (tidb-sql) or interpolated (mindsdb-sql) holds
\* one value per declared standard parameter, in declared order: its i-th
\* element is the value the request gives the i-th declared parameter,
\* wherever that pair stands in the request; template parameters are not in it.
C6_ArgsInDeclaredOrder ==
  (tool.kind \in SqlKinds /\ sliceParams.set) =>
    /\ Len(sliceParams.v) = Len(tool.Parameters)
    /\ \A i \in 1..Len(tool.Parameters) :
         \E j \in 1..Len(params) :
           /\ params[j].Name = tool.Parameters[i]
           /\ params[j].Value = sliceParams.v[i]
           /\ \A l \in (j+1)..Len(params) : params[l].Name # tool.Parameters[i]
    /\ \A c \in 1..Len(calls) :
         /\ tool.kind = "tidb-sql" => calls[c].args = sliceParams.v
         /\ tool.kind = "mindsdb-sql" =>
              calls[c].stmt = interpolateParams(newStatement.v, sliceParams.v)

C6_Witness ==
  /\ tool.kind = "tidb-sql"
  /\ tool.Parameters = <<"p2", "p1">>
  /\ Len(params) = 3
  /\ params[2].Name = "p1"
  /\ Len(calls) = 1
  /\ calls[1].args = <<IntV(7), StrV(<<"a">>)>>

\* v is the value the JSON text stands for
IsJsonOf(v, text) ==
  CASE v.type = "nil" -> text = <<"n", "u", "l", "l">>
    [] v.type = "float" -> v.n % 10 = 0 /\ v.n >= 0 /\ FormatNat(v.n \div 10) = text
    [] v.type = "string" -> <<DQ>> \o v.s \o <<DQ>> = text
    [] OTHER -> FALSE

LastOfName(cols, i) == \A j \in (i+1)..Len(cols) : cols[j] # cols[i]

\* C7: every row tidb-sql materialises maps each column name to the value of
\* that column: null for SQL NULL, the unmarshalled value for a JSON column,
\* a native string for TEXT, VARCHAR and NVARCHAR, the driver's value
\* unchanged for any other type.
C7_ColumnTypeAwareConversion ==
  tool.kind = "tidb-sql" =>
    \A r \in 1..Len(out) :
      /\ DOMAIN out[r] = Range(db.cols)
      /\ \A i \in 1..Len(db.cols) :
           LastOfName(db.cols, i) =>
             LET cell == db.rows[r][i]
                 v == out[r][db.cols[i]]
             IN CASE cell = Nil -> v = Nil
                  [] cell # Nil /\ db.types[i] = "JSON" ->
                       v.type # "bytes" /\ IsJsonOf(v, cell.s)
                  [] cell # Nil /\ db.types[i] \in {"TEXT", "VARCHAR", "NVARCHAR"} ->
                       v = StrV(cell.s)
                  [] OTHER -> v = cell

C7_Witness ==
  /\ tool.kind = "tidb-sql"
  /\ ret.returned /\ ret.err = ""
  /\ Len(ret.rows) = 2
  /\ db.cols = <<"name", "email">>
  /\ ret.rows[1] = [name |-> StrV(<<"a">>), email |-> FloatV(120)]
  /\ ret.rows[2] = [name |-> Nil, email |-> StrV(<<"a">>)]

\* C8: on success Invoke returns one element per row the driver yielded, the
\* i-th element built from the i-th row.
C8_RowOrderPreserved ==
  (ret.returned /\ ret.err = "") =>
    /\ Len(ret.rows) = yielded
    /\ \A i \in 1..Len(ret.rows) :
         ret.rows[i] = rowMap(tool.kind, db.cols, db.types, db.rows[i])

C8_Witness ==
  /\ ret.returned /\ ret.err = ""
  /\ Len(ret.rows) = 2
  /\ yielded = 2
  /\ ret.rows[1] # ret.rows[2]

\* ascending order of the column names of the model
NameRank(nm) == CASE nm = "email" -> 1 [] nm = "id" -> 2 [] OTHER -> 3

\* the order in which a row's columns appear in the JSON result: a Go map is
\* marshalled with its keys sorted
marshalKeys(vMap) ==
  [i \in 1..Cardinality(DOMAIN vMap) |->
     CHOOSE k \in DOMAIN vMap :
       Cardinality({k2 \in DOMAIN vMap : NameRank(k2) < NameRank(k)}) = i - 1]

\* C9 as claimed: within each materialised row the columns appear in the order
\* in which the driver reported them.
C9_ColumnOrderPreserved ==
  (ret.returned /\ ret.err = "") =>
    \A i \in 1..Len(ret.rows) : marshalKeys(ret.rows[i]) = db.cols

\* C9 as amended: each materialised row is a mapping keyed by column name,
\* holding every reported column name once; in the JSON result its columns
\* appear in ascending order of name, not in the driver's order.
C9_ColumnsSortedByName ==
  (ret.returned /\ ret.err = "") =>
    \A i \in 1..Len(ret.rows) :
      LET ks == marshalKeys(ret.rows[i])
      IN /\ Range(ks) = Range(db.cols)
         /\ \A a \in 1..Len(ks) : \A b \in (a+1)..Len(ks) :
              NameRank(ks[a]) < NameRank(ks[b])

C9_Witness ==
  /\ ret.returned /\ ret.err = ""
  /\ db.cols = <<"name", "email">>
  /\ Len(ret.rows) = 1
  /\ ret.rows[1]["name"] = Nil
  /\ marshalKeys(ret.rows[1]) = <<"email", "name">>

MissingParam(declared) == \E i \in 1..Len(declared) :
                            \A j \in 1..Len(params) : params[j].Name # declared[i]

\* C10: when template-parameter resolution or standard-parameter extraction
\* fails, Invoke returns the matching error ("unable to extract template
\* params" / "unable to extract standard params") with a nil result, and the
\* driver's query call is never made in that invocation.
C10_RequestErrorsBeforeQuery ==
  tool.kind \in SqlKinds =>
    /\ (MissingParam(tool.TemplateParameters) \/ MissingParam(tool.Parameters)) =>
         calls = <<>>
    /\ (ret.returned /\ MissingParam(tool.TemplateParameters)) =>
         ret.err = "unable to extract template params" /\ ret.isNil /\ ret.rows = <<>>
    /\ (ret.returned /\ ~MissingParam(tool.TemplateParameters)
          /\ MissingParam(tool.Parameters)) =>
         ret.err = "unable to extract standard params" /\ ret.isNil /\ ret.rows = <<>>
    /\ ret.err \in {"unable to extract template params",
                    "unable to extract standard params"} =>
         /\ calls = <<>>
         /\ MissingParam(tool.TemplateParameters) \/ MissingParam(tool.Parameters)

C10_Witness ==
  /\ tool.kind = "mindsdb-sql"
  /\ ret.returned
  /\ ret.err = "unable to extract standard params"
  /\ newStatement.set
  /\ HasTemplateToken(tool.Statement)

\* every error text Invoke wraps a driver or conversion error in
FailurePrefixes ==
  {"unable to execute query", "unable to retrieve rows column name",
   "unable to get column types", "unable to parse row",
   "unable to unmarshal json data", "errors encountered when converting values",
   "errors encountered during row iteration"}

\* C11: for tidb-sql, mindsdb-sql and postgres-execute-sql, when the driver
\* reports an error (at the query, while a row is read or converted, or at the
\* end of row iteration) Invoke returns an error with a fixed prefix and no
\* rows: never a successful result with part of the rows.
C11_DriverErrorsSurfaced ==
  (ret.returned /\ failure # "") =>
    /\ ret.err \in FailurePrefixes
    /\ ret.isNil
    /\ ret.rows = <<>>

\* C12: the driver's query call is issued at most once in an invocation, and
\* after a driver error the invocation ends in the error outcome, with no
\* second query.
C12_NothingRetried ==
  /\ Len(calls) <= 1
  /\ failure # "" => (ret.returned /\ ret.err # "" /\ Len(calls) = 1)

\* the rows a result set converts to, up to row n
ConvertedRows(t, d, n) == [i \in 1..n |-> rowMap(t.kind, d.cols, d.types, d.rows[i])]

\* the query one invocation issues, from the tool and its own parameters alone
OwnCall(t, ps) ==
  IF t.kind \in SqlKinds
  THEN LET stmt == ResolveTemplateParams(t.TemplateParameters, t.Statement, AsMap(ps)).stmt
           slice == AsSlice(GetParams(standardParams(t), AsMap(ps)).vals)
       IN [stmt |-> queryText(t, stmt, interpolateParams(stmt, slice), slice),
           args |-> queryArgs(t, slice)]
  ELSE [stmt |-> ps[1].Value.s, args |-> <<>>]

\* the request of an invocation is refused before the query
Refused(t, ps) ==
  IF t.kind \in SqlKinds
  THEN \/ ~ResolveTemplateParams(t.TemplateParameters, t.Statement, AsMap(ps)).ok
       \/ ~GetParams(standardParams(t), AsMap(ps)).ok
  ELSE Len(ps) = 0 \/ ps[1].Value.type # "string"

\* what a returned invocation x returned follows from the tool, its own
\* parameters and what the driver did to it
OwnOutcome(t, x) ==
  x.ret.returned =>
    IF Refused(t, x.params)
    THEN x.calls = <<>> /\ x.ret.err # "" /\ x.ret.rows = <<>>
    ELSE /\ x.calls = <<OwnCall(t, x.params)>>
         /\ x.failure = "" => x.ret = ReturnOut(ConvertedRows(t, x.db, Len(x.db.rows)))
         /\ x.failure # "" =>
              \/ x.ret.err # "" /\ x.ret.rows = <<>>
              \/ x.ret = ReturnOut(ConvertedRows(t, x.db, x.yielded))

\* C13: two calls of Invoke on the same Tool, interleaved in any way, each
\* return what their own parameters and their own result set determine, and no
\* step of Invoke changes the Statement, Parameters or TemplateParameters of
\* the Tool.
C13_InvocationsIndependent ==
  /\ [](OwnOutcome(tool, Running) /\ OwnOutcome(tool, parked))
  /\ [][tool' = tool]_vars

\* one invocation returned without error while the other, with other
\* parameters, is between its query and its return
C13_Witness ==
  /\ ret.returned /\ ret.err = ""
  /\ ~parked.ret.returned
  /\ Len(parked.calls) = 1 /\ Len(calls) = 1
  /\ calls # parked.calls
  /\ HasTemplateToken(tool.Statement)

(***************************************************************************)
(* Loading a tools file: server.ToolConfigs, newConfig, Config.Initialize   *)
(***************************************************************************)
\* the keys under `tools`
ToolKeys == {"tool1", "tool2"}

\* the kinds registered by the init functions of the tool packages
registry == {"tidb-sql", "mindsdb-sql", "postgres-execute-sql", "mongodb-insert-many"}

\* the kinds a tools file may name
FileKinds == registry \cup {"invalid-kind"}

\* a statement in a tools file
FileStatement == <<"a", Placeholder>>

\* authRequired: omitted, or a list of services
AuthChoices == {[present |-> FALSE, list |-> <<>>], [present |-> TRUE, list |-> <<"svc2", "svc1">>]}

\* parameters and templateParameters: omitted, or lists
ParamChoices == {[p |-> <<>>, tp |-> <<>>], [p |-> <<"p2", "p1">>, tp |-> <<"t">>]}

\* the fields of one tool of the file; an omitted string field is ""
Entry(k, src, stmt, dbname, auth, pc0) ==
  [kind |-> k, source |-> src, description |-> "d", statement |-> stmt, database |-> dbname,
   authRequired |-> auth, parameters |-> pc0.p, templateParameters |-> pc0.tp]

FileSources == {"", "my-instance", "other"}

Entries ==
  { Entry(k, src, stmt, "", auth, pc0) :
      k \in SqlKinds, src \in FileSources, stmt \in {<<>>, FileStatement},
      auth \in AuthChoices, pc0 \in ParamChoices }
  \cup { Entry("postgres-execute-sql", src, <<>>, "", auth, [p |-> <<>>, tp |-> <<>>]) :
           src \in FileSources, auth \in AuthChoices }
  \cup { Entry("mongodb-insert-many", src, <<>>, dbname, auth, [p |-> <<>>, tp |-> <<>>]) :
           src \in FileSources, dbname \in {"", "db"}, auth \in AuthChoices }
  \cup { Entry("invalid-kind", src, stmt, "", [present |-> FALSE, list |-> <<>>],
               [p |-> <<>>, tp |-> <<>>]) :
           src \in FileSources, stmt \in {<<>>, FileStatement} }

Files == UNION { [ks -> Entries] : ks \in SUBSET ToolKeys \ {{}} }

\* the configured sources: name -> kind and connection
Source(k, conn) == [kind |-> k, pool |-> conn]

SourceMaps ==
  { [n \in {"my-instance"} |-> Source("tidb", "pool1")],
    [n \in {"my-instance", "other"} |->
       IF n = "other" THEN Source("tidb", "pool2") ELSE Source("tidb", "pool1")],
    [n \in {"my-instance", "other"} |->
       IF n = "other" THEN Source("tidb", "pool2") ELSE Source("postgres", "pool1")],
    [n \in {"my-instance", "other"} |->
       IF n = "other" THEN Source("mongodb", "pool2") ELSE Source("mindsdb", "pool1")] }

\* a map with one more key
Put(m, k, v) == [n \in DOMAIN m \cup {k} |-> IF n = k THEN v ELSE m[n]]

\* the fields of mongodb-insert-many that must be there
RequiredMongo == {"Source", "Description", "Database"}

\* a Config whose Statement field lacks the required tag
RequiredNoStatement(k) ==
  IF k = "mongodb-insert-many" THEN RequiredMongo ELSE {"Name", "Kind", "Source", "Description"}

\* the fields tagged validate:"required" in the Config of a kind
Required(k) ==
  CASE k \in SqlKinds -> {"Name", "Kind", "Source", "Description", "Statement"}
    [] k = "mongodb-insert-many" -> RequiredMongo
    [] OTHER -> {"Name", "Kind", "Source", "Description"}

\* newConfig called with the kind for the name
decodeKindAsName(name, e, auth) ==
  [Name |-> e.kind, Kind |-> e.kind, Source |-> e.source, Description |-> e.description,
   Statement |-> e.statement, Database |-> e.database, AuthRequired |-> auth,
   Parameters |-> e.parameters, TemplateParameters |-> e.templateParameters]

\* newConfig: actual := Config{Name: name}, then the decoder fills the fields
decode(name, e, auth) ==
  [Name |-> name, Kind |-> e.kind, Source |-> e.source, Description |-> e.description,
   Statement |-> e.statement, Database |-> e.database, AuthRequired |-> auth,
   Parameters |-> e.parameters, TemplateParameters |-> e.templateParameters]

\* the required fields of a decoded Config that hold the zero value
Missing(cfg) ==
  { f \in Required(cfg.Kind) :
      \/ f = "Name" /\ cfg.Name = ""
      \/ f = "Kind" /\ cfg.Kind = ""
      \/ f = "Source" /\ cfg.Source = ""
      \/ f = "Description" /\ cfg.Description = ""
      \/ f = "Statement" /\ cfg.Statement = <<>>
      \/ f = "Database" /\ cfg.Database = "" }

\* ToolConfigs.UnmarshalYAML: an omitted authRequired becomes an empty list
authDefault(e) == IF e.authRequired.present THEN e.authRequired.list ELSE <<>>

errUnknownKind == "unknown tool kind"
errParseTool == "unable to parse tool"
errNoSource == "no source named"
errInvalidSource == "invalid source for"

Loading ==
  /\ phase = "parse"
  /\ loadErr = NoErr

\* load fails: the error goes to the caller and nothing is served
LoadFails(e) ==
  /\ loadErr' = e
  /\ phase' = "failed"
  /\ toolConfigs' = EmptyMap
  /\ toolsMap' = EmptyMap

\* tools.DecodeConfig finds the kind and newConfig decodes the tool
ParseToolOk(name) ==
  /\ Loading
  /\ name \in DOMAIN file \ DOMAIN toolConfigs
  /\ file[name].kind \in registry
  /\ Missing(decode(name, file[name], authDefault(file[name]))) = {}
  /\ toolConfigs' = Put(toolConfigs, name, decode(name, file[name], authDefault(file[name])))
  /\ UNCHANGED <<file, srcs, toolsMap, loadErr, phase>>
  /\ UNCHANGED <<tool, locals, parked, serving, listing, metadata, looker, registering, interpolating>>

\* tools.DecodeConfig: no factory is registered for the kind
ParseToolUnknownKind(name) ==
  /\ Loading
  /\ name \in DOMAIN file \ DOMAIN toolConfigs
  /\ file[name].kind \notin registry
  /\ LoadFails([msg |-> errUnknownKind, tool |-> "", kind |-> file[name].kind, fields |-> {}])
  /\ UNCHANGED <<file, srcs>>
  /\ UNCHANGED <<tool, locals, parked, serving, listing, metadata, looker, registering, interpolating>>

\* newConfig: the decoder reports the required fields that are missing
ParseToolInvalid(name) ==
  /\ Loading
  /\ name \in DOMAIN file \ DOMAIN toolConfigs
  /\ file[name].kind \in registry
  /\ Missing(decode(name, file[name], authDefault(file[name]))) # {}
  /\ LoadFails([msg |-> errParseTool, tool |-> name, kind |-> file[name].kind,
                fields |-> Missing(decode(name, file[name], authDefault(file[name])))])
  /\ UNCHANGED <<file, srcs>>
  /\ UNCHANGED <<tool, locals, parked, serving, listing, metadata, looker, registering, interpolating>>

\* every tool of the file is parsed
ParseDone ==
  /\ Loading
  /\ DOMAIN toolConfigs = DOMAIN file
  /\ phase' = "init"
  /\ UNCHANGED <<file, srcs, toolConfigs, toolsMap, loadErr>>
  /\ UNCHANGED <<tool, locals, parked, serving, listing, metadata, looker, registering, interpolating>>

\* the source kinds a tool kind accepts
compatibleSources(k) ==
  CASE k = "tidb-sql" -> {"tidb"}
    [] k = "mindsdb-sql" -> {"mindsdb"}
    [] k = "postgres-execute-sql" -> {"postgres"}
    [] OTHER -> {"mongodb"}

NoTool ==
  [Name |-> "", kind |-> "", Statement |-> <<>>, Parameters |-> <<>>,
   TemplateParameters |-> <<>>, AuthRequired |-> <<>>, Pool |-> ""]

\* Initialize that takes any source of a compatible kind
InitializeAnyCompatible(cfg, ss) ==
  IF cfg.Source \notin DOMAIN ss
  THEN [ok |-> FALSE, err |-> errNoSource, tool |-> NoTool]
  ELSE IF ss[cfg.Source].kind \notin compatibleSources(cfg.Kind)
  THEN [ok |-> FALSE, err |-> errInvalidSource, tool |-> NoTool]
  ELSE [ok |-> TRUE, err |-> "",
        tool |-> [Name |-> cfg.Name, kind |-> cfg.Kind, Statement |-> cfg.Statement,
                  Parameters |-> IF cfg.Kind = "postgres-execute-sql" THEN <<"sql">>
                                 ELSE cfg.Parameters,
                  TemplateParameters |-> cfg.TemplateParameters,
                  AuthRequired |-> cfg.AuthRequired,
                  Pool |-> ss[CHOOSE n \in DOMAIN ss :
                                ss[n].kind \in compatibleSources(cfg.Kind)].pool]]

\* Config.Initialize
Initialize(cfg, ss) ==
  IF cfg.Source \notin DOMAIN ss
  THEN [ok |-> FALSE, err |-> errNoSource, tool |-> NoTool]
  ELSE IF ss[cfg.Source].kind \notin compatibleSources(cfg.Kind)
  THEN [ok |-> FALSE, err |-> errInvalidSource, tool |-> NoTool]
  ELSE [ok |-> TRUE, err |-> "",
        tool |-> [Name |-> cfg.Name, kind |-> cfg.Kind, Statement |-> cfg.Statement,
                  Parameters |-> IF cfg.Kind = "postgres-execute-sql" THEN <<"sql">>
                                 ELSE cfg.Parameters,
                  TemplateParameters |-> cfg.TemplateParameters,
                  AuthRequired |-> cfg.AuthRequired,
                  Pool |-> ss[cfg.Source].pool]]

\* the server initializes the tool of one config
InitializeOk(name) ==
  /\ phase = "init"
  /\ name \in DOMAIN toolConfigs \ DOMAIN toolsMap
  /\ Initialize(toolConfigs[name], srcs).ok
  /\ toolsMap' = Put(toolsMap, name, Initialize(toolConfigs[name], srcs).tool)
  /\ UNCHANGED <<file, srcs, toolConfigs, loadErr, phase>>
  /\ UNCHANGED <<tool, locals, parked, serving, listing, metadata, looker, registering, interpolating>>

InitializeErr(name) ==
  /\ phase = "init"
  /\ name \in DOMAIN toolConfigs \ DOMAIN toolsMap
  /\ ~Initialize(toolConfigs[name], srcs).ok
  /\ LoadFails([msg |-> Initialize(toolConfigs[name], srcs).err, tool |-> name,
                kind |-> toolConfigs[name].Kind, fields |-> {}])
  /\ UNCHANGED <<file, srcs>>
  /\ UNCHANGED <<tool, locals, parked, serving, listing, metadata, looker, registering, interpolating>>

\* every tool is initialized: the server can serve
InitializeDone ==
  /\ phase = "init"
  /\ DOMAIN toolsMap = DOMAIN toolConfigs
  /\ phase' = "ready"
  /\ UNCHANGED <<file, srcs, toolConfigs, toolsMap, loadErr>>
  /\ UNCHANGED <<tool, locals, parked, serving, listing, metadata, looker, registering, interpolating>>

InitLoad ==
  /\ file \in Files
  /\ srcs \in SourceMaps
  /\ toolConfigs = EmptyMap
  /\ toolsMap = EmptyMap
  /\ loadErr = NoErr
  /\ phase = "parse"
  /\ tool = [kind |-> "", Statement |-> <<>>, Parameters |-> <<>>, TemplateParameters |-> <<>>]
  /\ params = NoInvocation.params
  /\ db = NoInvocation.db
  /\ pc = NoInvocation.pc
  /\ newStatement = NoInvocation.newStatement
  /\ sliceParams = NoInvocation.sliceParams
  /\ finalStatement = NoInvocation.finalStatement
  /\ calls = NoInvocation.calls
  /\ yielded = NoInvocation.yielded
  /\ rawValues = NoInvocation.rawValues
  /\ out = NoInvocation.out
  /\ ret = NoInvocation.ret
  /\ failure = NoInvocation.failure
  /\ results = NoInvocation.results
  /\ parked = NoInvocation
  /\ NotServing
  /\ NoOtherTool
  /\ NoLooks
  /\ NoneRegistering
  /\ NotInterpolating

NextLoad ==
  \/ \E name \in ToolKeys : ParseToolOk(name)
  \/ \E name \in ToolKeys : ParseToolUnknownKind(name)
  \/ \E name \in ToolKeys : ParseToolInvalid(name)
  \/ ParseDone
  \/ \E name \in ToolKeys : InitializeOk(name)
  \/ \E name \in ToolKeys : InitializeErr(name)
  \/ InitializeDone

SpecLoad == InitLoad /\ [][NextLoad]_vars

\* the tool of the file lacks a field its kind requires
LacksRequiredField(e) ==
  \/ e.source = ""
  \/ e.kind = "mindsdb-sql" /\ e.statement = <<>>
  \/ e.kind = "mongodb-insert-many" /\ e.database = ""

\* field f is omitted from the tool of the file
FieldOmitted(e, f) ==
  \/ f = "Source" /\ e.source = ""
  \/ f = "Statement" /\ e.statement = <<>>
  \/ f = "Database" /\ e.database = ""

\* C14: a tools file with a tool of an unregistered kind, or with a tool that
\* lacks a required field (source for every kind, statement for mindsdb-sql,
\* database for mongodb-insert-many), never gets past parsing: that tool gets
\* no config, no tool is built, and a failed load leaves no configs and an
\* error that says "unknown tool kind" or names the tool, kind and field.
C14_ConfigErrorsFailAtLoad ==
  /\ \A name \in DOMAIN file :
       (file[name].kind \notin registry \/ LacksRequiredField(file[name])) =>
         /\ phase \in {"parse", "failed"}
         /\ name \notin DOMAIN toolConfigs
         /\ toolsMap = EmptyMap
  /\ phase = "failed" =>
       /\ toolConfigs = EmptyMap
       /\ toolsMap = EmptyMap
       /\ loadErr.msg # ""
       /\ loadErr.msg = errUnknownKind =>
            /\ loadErr.kind \notin registry
            /\ \E name \in DOMAIN file : file[name].kind = loadErr.kind
       /\ loadErr.msg = errParseTool =>
            /\ loadErr.tool \in DOMAIN file
            /\ loadErr.kind = file[loadErr.tool].kind
            /\ loadErr.fields # {}
            /\ \A f \in loadErr.fields : FieldOmitted(file[loadErr.tool], f)

\* the load failed on a mindsdb-sql tool without statement, next to a tool
\* that is in order
C14_Witness ==
  /\ phase = "failed"
  /\ loadErr.msg = errParseTool
  /\ loadErr.kind = "mindsdb-sql"
  /\ loadErr.fields = {"Statement"}
  /\ \E name \in DOMAIN file :
       /\ name # loadErr.tool
       /\ file[name].kind \in registry
       /\ ~LacksRequiredField(file[name])

\* the source kind each tool kind is compatible with
CompatiblePairs ==
  {<<"tidb-sql", "tidb">>, <<"mindsdb-sql", "mindsdb">>, <<"postgres-execute-sql", "postgres">>,
   <<"mongodb-insert-many", "mongodb">>}

\* C15: a Tool is built only for a config whose source names a configured
\* source of a compatible kind, and it holds the connection of exactly that
\* source; a missing source gives "no source named", an incompatible one
\* "invalid source", and no Tool.
C15_InitializeBindsNamedSource ==
  /\ \A name \in DOMAIN toolsMap :
       /\ file[name].source \in DOMAIN srcs
       /\ <<file[name].kind, srcs[file[name].source].kind>> \in CompatiblePairs
       /\ toolsMap[name].Pool = srcs[file[name].source].pool
       /\ toolsMap[name].Name = name
  /\ (phase = "failed" /\ loadErr.msg = errNoSource) =>
       /\ file[loadErr.tool].source \notin DOMAIN srcs
       /\ toolsMap = EmptyMap
  /\ (phase = "failed" /\ loadErr.msg = errInvalidSource) =>
       /\ file[loadErr.tool].source \in DOMAIN srcs
       /\ <<file[loadErr.tool].kind, srcs[file[loadErr.tool].source].kind>> \notin CompatiblePairs
       /\ toolsMap = EmptyMap
  /\ \A name \in DOMAIN toolConfigs :
       (phase = "ready" => name \in DOMAIN toolsMap)

\* two tools are built on two sources of the same kind, each on its own
C15_Witness ==
  /\ phase = "ready"
  /\ DOMAIN toolsMap = ToolKeys
  /\ toolsMap["tool1"].Pool # toolsMap["tool2"].Pool
  /\ toolsMap["tool1"].kind = toolsMap["tool2"].kind

\* C16: parsing gives one config per key under `tools`; a config has the key
\* as its Name, the fields of its own tool with the parameters in the order
\* declared, and as AuthRequired the listed services in order, or the empty
\* list when authRequired is omitted.
C16_OneConfigPerToolKey ==
  /\ phase \in {"init", "ready"} => DOMAIN toolConfigs = DOMAIN file
  /\ DOMAIN toolConfigs \subseteq DOMAIN file
  /\ \A name \in DOMAIN toolConfigs :
       /\ toolConfigs[name].Name = name
       /\ toolConfigs[name].Kind = file[name].kind
       /\ toolConfigs[name].Source = file[name].source
       /\ toolConfigs[name].Description = file[name].description
       /\ toolConfigs[name].Statement = file[name].statement
       /\ toolConfigs[name].Parameters = file[name].parameters
       /\ toolConfigs[name].TemplateParameters = file[name].templateParameters
       /\ toolConfigs[name].AuthRequired =
            IF file[name].authRequired.present THEN file[name].authRequired.list ELSE <<>>

\* two tools are parsed: one lists its services and parameters, the other
\* omits authRequired
C16_Witness ==
  /\ phase = "init"
  /\ DOMAIN toolConfigs = ToolKeys
  /\ toolConfigs["tool1"].AuthRequired = <<"svc2", "svc1">>
  /\ toolConfigs["tool1"].Parameters = <<"p2", "p1">>
  /\ ~file["tool2"].authRequired.present
  /\ toolConfigs["tool2"].AuthRequired = <<>>

(***************************************************************************)
(* Serving: POST /api/tool/{name}/invoke and MCP tools/call                  *)
(***************************************************************************)
AuthServices == {"svc1", "svc2"}

\* the <service>_token headers of a request: none, a token the service
\* verifies, or one it rejects
TokenMaps == [AuthServices -> {"none", "valid", "invalid"}]

\* the auth services whose token on the request is verified
verifiedAuthServices(req) == {a \in DOMAIN req.tokens : req.tokens[a] = "valid"}

\* tools.IsAuthorized
IsAuthorized(authRequired, verified) ==
  \/ authRequired = <<>>
  \/ \E i \in 1..Len(authRequired) : authRequired[i] \in verified

\* a tool that lets every request in
AuthorizedAlways(t, verified) == TRUE

\* Tool.Authorized
Authorized(t, verified) == IsAuthorized(t.AuthRequired, verified)

\* Tool.ParseParams: every declared parameter has a value of its type
ParamsValid(t, ps) ==
  IF t.kind \in SqlKinds
  THEN (Range(t.Parameters) \cup Range(t.TemplateParameters)) \subseteq
         {ps[i].Name : i \in 1..Len(ps)}
  ELSE Len(ps) > 0 /\ ps[1].Value.type = "string"

\* the served tools: the tools of Invoke, with the services they require
ServedTool(t, auth) ==
  [Name |-> "my-tool", kind |-> t.kind, Statement |-> t.Statement,
   Parameters |-> t.Parameters, TemplateParameters |-> t.TemplateParameters,
   AuthRequired |-> auth, Pool |-> "pool1"]

ServedMaps ==
  { [n \in {"my-tool"} |-> ServedTool(t, auth)] :
      t \in RowTools, auth \in {<<>>, <<"svc1">>, <<"svc2", "svc1">>} }

ServedRequests ==
  [proto : {"http", "mcp"}, name : {"my-tool", "no-tool"}, tokens : TokenMaps,
   params : FewRequests]

\* the receiver of Invoke: the Tool value found in the tools map
receiver(t) ==
  [kind |-> t.kind, Statement |-> t.Statement, Parameters |-> t.Parameters,
   TemplateParameters |-> t.TemplateParameters]

\* a CallToolResult whose IsError is never set
CallToolResultNoError(rows, text, isError) ==
  [status |-> 200, rpcError |-> "", isError |-> FALSE, text |-> text, rows |-> rows]

\* the result of tools/call
CallToolResult(rows, text, isError) ==
  [status |-> 200, rpcError |-> "", isError |-> isError, text |-> text, rows |-> rows]

\* an HTTP response
HttpResponse(code, rows, text) ==
  [status |-> code, rpcError |-> "", isError |-> FALSE, text |-> text, rows |-> rows]

\* a JSON-RPC error response
RpcError(code, text) ==
  [status |-> code, rpcError |-> text, isError |-> FALSE, text |-> "", rows |-> <<>>]

Received(proto) ==
  /\ handler = "received"
  /\ request.proto = proto

Respond(r) ==
  /\ response' = r
  /\ handler' = "responded"
  /\ UNCHANGED request
  /\ UNCHANGED <<tool, locals, parked, loading, listing, metadata, looker, registering, interpolating>>

\* the handler calls tool.Invoke with the parsed parameters
StartInvoke ==
  /\ tool' = receiver(toolsMap[request.name])
  /\ params' = request.params
  /\ pc' = 1
  /\ handler' = "invoking"
  /\ UNCHANGED <<request, response>>
  /\ UNCHANGED <<db, newStatement, sliceParams, finalStatement, calls, yielded, rawValues,
                 out, ret, failure, results, parked, loading, listing, metadata, looker,
                 registering, interpolating>>

HttpNotFound ==
  /\ Received("http")
  /\ request.name \notin DOMAIN toolsMap
  /\ Respond(HttpResponse(404, <<>>, "invalid tool name"))

HttpUnauthorized ==
  /\ Received("http")
  /\ request.name \in DOMAIN toolsMap
  /\ ~Authorized(toolsMap[request.name], verifiedAuthServices(request))
  /\ Respond(HttpResponse(401, <<>>, "tool invocation not authorized"))

HttpBadParams ==
  /\ Received("http")
  /\ request.name \in DOMAIN toolsMap
  /\ Authorized(toolsMap[request.name], verifiedAuthServices(request))
  /\ ~ParamsValid(toolsMap[request.name], request.params)
  /\ Respond(HttpResponse(400, <<>>, "provided parameters were invalid"))

HttpInvoke ==
  /\ Received("http")
  /\ request.name \in DOMAIN toolsMap
  /\ Authorized(toolsMap[request.name], verifiedAuthServices(request))
  /\ ParamsValid(toolsMap[request.name], request.params)
  /\ StartInvoke

HttpResult ==
  /\ handler = "invoking"
  /\ request.proto = "http"
  /\ ret.returned
  /\ Respond(IF ret.err = "" THEN HttpResponse(200, ret.rows, "")
             ELSE HttpResponse(IF failure = "" THEN 400 ELSE 500, <<>>, ret.err))

McpNotFound ==
  /\ Received("mcp")
  /\ request.name \notin DOMAIN toolsMap
  /\ Respond(RpcError(200, "invalid tool name"))

McpUnauthorized ==
  /\ Received("mcp")
  /\ request.name \in DOMAIN toolsMap
  /\ ~Authorized(toolsMap[request.name], verifiedAuthServices(request))
  /\ Respond(RpcError(401, "unauthorized Tool call"))

McpBadParams ==
  /\ Received("mcp")
  /\ request.name \in DOMAIN toolsMap
  /\ Authorized(toolsMap[request.name], verifiedAuthServices(request))
  /\ ~ParamsValid(toolsMap[request.name], request.params)
  /\ Respond(RpcError(200, "provided parameters were invalid"))

McpInvoke ==
  /\ Received("mcp")
  /\ request.name \in DOMAIN toolsMap
  /\ Authorized(toolsMap[request.name], verifiedAuthServices(request))
  /\ ParamsValid(toolsMap[request.name], request.params)
  /\ StartInvoke

McpResult ==
  /\ handler = "invoking"
  /\ request.proto = "mcp"
  /\ ret.returned
  /\ Respond(IF ret.err = "" THEN CallToolResult(ret.rows, "", FALSE)
             ELSE CallToolResult(<<>>, ret.err, TRUE))

InitServe ==
  /\ toolsMap \in ServedMaps
  /\ request \in ServedRequests
  /\ response = NoResponse
  /\ handler = "received"
  /\ db \in FewDBs
  /\ file = EmptyMap
  /\ srcs = EmptyMap
  /\ toolConfigs = EmptyMap
  /\ loadErr = NoErr
  /\ phase = "ready"
  /\ tool = [kind |-> "", Statement |-> <<>>, Parameters |-> <<>>, TemplateParameters |-> <<>>]
  /\ params = NoInvocation.params
  /\ pc = NoInvocation.pc
  /\ newStatement = NoInvocation.newStatement
  /\ sliceParams = NoInvocation.sliceParams
  /\ finalStatement = NoInvocation.finalStatement
  /\ calls = NoInvocation.calls
  /\ yielded = NoInvocation.yielded
  /\ rawValues = NoInvocation.rawValues
  /\ out = NoInvocation.out
  /\ ret = NoInvocation.ret
  /\ failure = NoInvocation.failure
  /\ results = NoInvocation.results
  /\ parked = NoInvocation
  /\ NoOtherTool
  /\ NoLooks
  /\ NoneRegistering
  /\ NotInterpolating

\* the steps of Invoke that parsed parameters lead to
NextServe ==
  \/ HttpNotFound \/ HttpUnauthorized \/ HttpBadParams \/ HttpInvoke \/ HttpResult
  \/ McpNotFound \/ McpUnauthorized \/ McpBadParams \/ McpInvoke \/ McpResult
  \/ ResolveTemplateOk \/ GetParamsOk \/ Interpolate \/ SliceOk
  \/ QueryOk \/ QueryErr
  \/ ColumnsOk \/ ColumnsErr
  \/ ColumnTypesOk \/ ColumnTypesErr
  \/ FieldDescriptions
  \/ NextRow \/ ScanErr \/ IterErr \/ Finish

SpecServe == InitServe /\ [][NextServe]_vars

\* the request carries a verified token of a service the tool lists
HasListedToken(req, t) ==
  \E i \in 1..Len(t.AuthRequired) :
    /\ t.AuthRequired[i] \in DOMAIN req.tokens
    /\ req.tokens[t.AuthRequired[i]] = "valid"

\* C17: for a tool with a non-empty authRequired list, a request without a
\* verified token of a listed service is answered 401 and Invoke never runs
\* (no step of it, no query); with such a token, or for a tool with an empty
\* list, the request is never answered 401, and it is answered 200 when its
\* invocation succeeds.
C17_AuthRequiredGuardsInvoke ==
  request.name \in DOMAIN toolsMap =>
    LET t == toolsMap[request.name]
    IN /\ (t.AuthRequired # <<>> /\ ~HasListedToken(request, t)) =>
            /\ handler # "invoking"
            /\ pc = 0 /\ calls = <<>> /\ ~ret.returned
            /\ handler = "responded" => response.status = 401
       /\ (t.AuthRequired = <<>> \/ HasListedToken(request, t)) =>
            /\ response.status # 401
            /\ (handler = "responded" /\ request.proto = "http"
                  /\ ParamsValid(t, request.params)) =>
                 /\ ret.returned
                 /\ (response.status = 200) = (ret.err = "")

\* a request with a rejected token for the listed service and a verified
\* token of a service that is not listed is answered 401
C17_Witness ==
  /\ handler = "responded"
  /\ request.proto = "http"
  /\ request.name \in DOMAIN toolsMap
  /\ toolsMap[request.name].AuthRequired = <<"svc1">>
  /\ request.tokens["svc1"] = "invalid"
  /\ request.tokens["svc2"] = "valid"
  /\ response.status = 401

\* C18: over MCP tools/call an error returned by Invoke is answered with a
\* result whose isError is true and whose content is the error text, not with
\* a JSON-RPC error; a successful invocation is answered with a result whose
\* isError is false; a JSON-RPC error is the answer only when Invoke did not
\* run (the tool is not found, the call is refused).
C18_ToolErrorsInResult ==
  (request.proto = "mcp" /\ handler = "responded") =>
    /\ (ret.returned /\ ret.err # "") =>
         /\ response.rpcError = ""
         /\ response.isError
         /\ response.text = ret.err
    /\ (ret.returned /\ ret.err = "") =>
         /\ response.rpcError = ""
         /\ ~response.isError
         /\ response.rows = ret.rows
    /\ response.rpcError # "" => (~ret.returned /\ calls = <<>>)
    /\ ~ret.returned => response.rpcError # ""

\* the driver refused the query of a tools/call and the answer is a result
\* with isError
C18_Witness ==
  /\ request.proto = "mcp"
  /\ handler = "responded"
  /\ failure = "query"
  /\ response.isError
  /\ response.text = errQuery

(***************************************************************************)
(* The prebuilt mssql tool list_tables                                      *)
(***************************************************************************)
MaxNamesLen == 4

Comma == ","
Space == " "

\* the values a request gives table_names
NameChars == {"a", "b", Comma, Space}

NameLists == UNION { [1..n -> NameChars] : n \in 0..MaxNamesLen }

\* sys.tables joined with sys.schemas: schema, name and type of each object
catalog ==
  { [schema |-> "dbo", name |-> <<"a">>, type |-> "U"],
    [schema |-> "dbo", name |-> <<"a", "b">>, type |-> "U"],
    [schema |-> "app", name |-> <<"b">>, type |-> "U"],
    [schema |-> "sys", name |-> <<"b", "b">>, type |-> "U"],
    [schema |-> "dbo", name |-> <<"b", "a">>, type |-> "V"] }

\* the schemas the statement leaves out
systemSchemas ==
  {"sys", "INFORMATION_SCHEMA", "guest", "db_owner", "db_accessadmin", "db_backupoperator",
   "db_datareader", "db_datawriter", "db_ddladmin", "db_denydatareader", "db_denydatawriter",
   "db_securityadmin"}

\* LTRIM
RECURSIVE LTRIM(_)
LTRIM(s) == IF s # <<>> /\ Head(s) = Space THEN LTRIM(Tail(s)) ELSE s

\* RTRIM
RECURSIVE RTRIM(_)
RTRIM(s) ==
  IF s # <<>> /\ s[Len(s)] = Space THEN RTRIM(SubSeq(s, 1, Len(s) - 1)) ELSE s

\* STRING_SPLIT(s, ','): the values between the commas
RECURSIVE STRING_SPLIT(_)
STRING_SPLIT(s) ==
  IF \E i \in 1..Len(s) : s[i] = Comma
  THEN LET i == CHOOSE k \in 1..Len(s) : s[k] = Comma /\ \A j \in 1..(k - 1) : s[j] # Comma
       IN {SubSeq(s, 1, i - 1)} \cup STRING_SPLIT(SubSeq(s, i + 1, Len(s)))
  ELSE {s}

\* the parameter table_names of list_tables as declared
tableNamesParameter ==
  [name |-> "table_names", type |-> "string", hasDefault |-> FALSE, default |-> <<>>]

\* tools.ParseParams for one string parameter: the value given, the default,
\* or an error for a parameter without default that is not given
ParseParam(decl, given) ==
  IF given.given THEN [ok |-> TRUE, v |-> given.v]
  ELSE IF decl.hasDefault THEN [ok |-> TRUE, v |-> decl.default]
  ELSE [ok |-> FALSE, v |-> <<>>]

\* the WHERE clause of table_info with @table_names bound to a string
tableInfo(names) ==
  { o \in catalog :
      /\ o.type = "U"
      /\ o.schema \notin systemSchemas
      /\ \/ LTRIM(RTRIM(names)) = <<>>
         \/ o.name \in {LTRIM(RTRIM(value)) : value \in STRING_SPLIT(names)} }

\* the request is refused: a parameter is required and not given
ListRejected ==
  /\ ~listed.done
  /\ ~ParseParam(tableNamesParameter, tableNames).ok
  /\ listed' = [done |-> TRUE, err |-> "parameter is required", names |-> {}]
  /\ UNCHANGED tableNames
  /\ UNCHANGED <<tool, locals, parked, loading, serving, metadata, looker, registering, interpolating>>

\* the statement runs with the parsed value bound to @table_names
ListTables ==
  /\ ~listed.done
  /\ ParseParam(tableNamesParameter, tableNames).ok
  /\ listed' = [done |-> TRUE, err |-> "",
                names |-> {o.name : o \in tableInfo(ParseParam(tableNamesParameter, tableNames).v)}]
  /\ UNCHANGED tableNames
  /\ UNCHANGED <<tool, locals, parked, loading, serving, metadata, looker, registering, interpolating>>

InitList ==
  /\ tableNames \in {[given |-> FALSE, v |-> <<>>]} \cup {[given |-> TRUE, v |-> s] : s \in NameLists}
  /\ listed = NotListed
  /\ bqProject = ""
  /\ bqData = <<>>
  /\ bqParams = Unset
  /\ bqCalls = <<>>
  /\ bqRet = BqNotReturned
  /\ NoLooks
  /\ NoneRegistering
  /\ NotInterpolating
  /\ NotLoading
  /\ NotServing
  /\ tool = [kind |-> "", Statement |-> <<>>, Parameters |-> <<>>, TemplateParameters |-> <<>>]
  /\ params = NoInvocation.params
  /\ db = NoInvocation.db
  /\ pc = NoInvocation.pc
  /\ newStatement = NoInvocation.newStatement
  /\ sliceParams = NoInvocation.sliceParams
  /\ finalStatement = NoInvocation.finalStatement
  /\ calls = NoInvocation.calls
  /\ yielded = NoInvocation.yielded
  /\ rawValues = NoInvocation.rawValues
  /\ out = NoInvocation.out
  /\ ret = NoInvocation.ret
  /\ failure = NoInvocation.failure
  /\ results = NoInvocation.results
  /\ parked = NoInvocation

NextList == ListRejected \/ ListTables

SpecList == InitList /\ [][NextList]_vars

\* the names of the user tables: type U, outside the system schemas
UserTableNames == {<<"a">>, <<"a", "b">>, <<"b">>}

\* only spaces
Blank(s) == \A i \in 1..Len(s) : s[i] = Space

\* nm stands in the list s between commas (or the ends), with spaces around it
IsEntry(nm, s) ==
  \E i \in 1..Len(s), j \in 1..Len(s) :
    /\ i <= j
    /\ (i = 1 \/ s[i - 1] = Comma)
    /\ (j = Len(s) \/ s[j + 1] = Comma)
    /\ \A k \in i..j : s[k] # Comma
    /\ \E m \in i..j, n \in i..j :
         /\ SubSeq(s, m, n) = nm
         /\ \A k \in i..(m - 1) : s[k] = Space
         /\ \A k \in (n + 1)..j : s[k] = Space

\* C19: list_tables invoked without table_names lists all tables of the user
\* schemas; with a comma-separated list it lists the tables whose name is one
\* of the trimmed entries; an empty or blank table_names is like none.
C19_ListTablesFilter ==
  listed.done =>
    /\ listed.err = ""
    /\ (~tableNames.given \/ Blank(tableNames.v)) => listed.names = UserTableNames
    /\ (tableNames.given /\ ~Blank(tableNames.v)) =>
         listed.names = {nm \in UserTableNames : IsEntry(nm, tableNames.v)}

(***************************************************************************)
(* bigquery-get-dataset-info                                                *)
(***************************************************************************)
projectKey == "project"
datasetKey == "dataset"

\* the project of the source's BigQuery client
ClientProjects == {<<"p", "0">>, <<"p", "1">>}

\* the values a request gives for project and dataset
ProjectValues == {StrV(<<"p", "1">>), StrV(<<"p", "2">>), IntV(7), Nil}
DatasetValues == {StrV(<<"d", "1">>), StrV(<<"d", "2">>), IntV(7), Nil}

BqShapes ==
  { <<projectKey, datasetKey>>, <<datasetKey, projectKey>>, <<datasetKey>>, <<projectKey>>, <<>> }

\* the body of a request, or the ParamValues of a direct call of Invoke
BqInputs ==
  { [i \in 1..Len(sh) |->
       [Name |-> sh[i], Value |-> IF sh[i] = projectKey THEN pv ELSE dv]] :
    sh \in BqShapes, pv \in ProjectValues, dv \in DatasetValues }

Has(ps, nm) == \E i \in 1..Len(ps) : ps[i].Name = nm

\* the parameters Initialize declares, without the default of project
bqParametersNoDefault(client) ==
  << [name |-> projectKey, hasDefault |-> FALSE, default |-> Nil],
     [name |-> datasetKey, hasDefault |-> FALSE, default |-> Nil] >>

\* the parameters Initialize declares: project defaults to the project of the
\* source's client, dataset has no default
bqParameters(client) ==
  << [name |-> projectKey, hasDefault |-> TRUE, default |-> StrV(client)],
     [name |-> datasetKey, hasDefault |-> FALSE, default |-> Nil] >>

\* tools.ParseParams for string parameters: the value given must be a string;
\* a parameter that is not given takes its default and fails without one
bqParseParams(decls, data) ==
  [ok |-> \A i \in 1..Len(decls) :
            IF Has(data, decls[i].name)
            THEN AsMap(data)[decls[i].name].type = "string"
            ELSE decls[i].hasDefault,
   vals |-> [i \in 1..Len(decls) |->
               [Name |-> decls[i].name,
                Value |-> IF Has(data, decls[i].name) THEN AsMap(data)[decls[i].name]
                          ELSE decls[i].default]]]

\* mapParams[key].(string)
isString(ps, key) == Has(ps, key) /\ AsMap(ps)[key].type = "string"

errInvalidOrMissing == "invalid or missing"
errMetadata == "failed to get metadata for dataset"

BqReturnErr(e) == [returned |-> TRUE, err |-> e, metadata |-> ""]

BqPending == bqParams.set /\ ~bqRet.returned

BqUnchanged == UNCHANGED <<tool, locals, parked, loading, serving, listing, looker, registering, interpolating>>

\* the handler parses the body of the request against the declared parameters
BqParseOk ==
  /\ ~bqParams.set /\ ~bqRet.returned
  /\ bqParseParams(bqParameters(bqProject), bqData).ok
  /\ bqParams' = Set(bqParseParams(bqParameters(bqProject), bqData).vals)
  /\ UNCHANGED <<bqProject, bqData, bqCalls, bqRet>>
  /\ BqUnchanged

BqParseErr ==
  /\ ~bqParams.set /\ ~bqRet.returned
  /\ ~bqParseParams(bqParameters(bqProject), bqData).ok
  /\ bqRet' = BqReturnErr("provided parameters were invalid")
  /\ UNCHANGED <<bqProject, bqData, bqParams, bqCalls>>
  /\ BqUnchanged

\* Invoke: mapParams[projectKey] is not a string
BqInvalidProject ==
  /\ BqPending
  /\ ~isString(bqParams.v, projectKey)
  /\ bqRet' = BqReturnErr(errInvalidOrMissing)
  /\ UNCHANGED <<bqProject, bqData, bqParams, bqCalls>>
  /\ BqUnchanged

\* Invoke: mapParams[datasetKey] is not a string
BqInvalidDataset ==
  /\ BqPending
  /\ isString(bqParams.v, projectKey)
  /\ ~isString(bqParams.v, datasetKey)
  /\ bqRet' = BqReturnErr(errInvalidOrMissing)
  /\ UNCHANGED <<bqProject, bqData, bqParams, bqCalls>>
  /\ BqUnchanged

\* the dataset Invoke asks BigQuery for
DatasetInProject(ps) ==
  [project |-> AsMap(ps)[projectKey].s, dataset |-> AsMap(ps)[datasetKey].s]

\* Invoke: t.Client.DatasetInProject(projectId, datasetId), Metadata succeeds
BqMetadataOk ==
  /\ BqPending
  /\ isString(bqParams.v, projectKey)
  /\ isString(bqParams.v, datasetKey)
  /\ bqCalls' = Append(bqCalls, DatasetInProject(bqParams.v))
  /\ bqRet' = [returned |-> TRUE, err |-> "", metadata |-> "metadata"]
  /\ UNCHANGED <<bqProject, bqData, bqParams>>
  /\ BqUnchanged

\* Invoke: Metadata returns an error
BqMetadataErr ==
  /\ BqPending
  /\ isString(bqParams.v, projectKey)
  /\ isString(bqParams.v, datasetKey)
  /\ bqCalls' = Append(bqCalls, DatasetInProject(bqParams.v))
  /\ bqRet' = BqReturnErr(errMetadata)
  /\ UNCHANGED <<bqProject, bqData, bqParams>>
  /\ BqUnchanged

\* a request goes through ParseParams; Invoke is also called directly with
\* ParamValues of any content
InitBq ==
  /\ bqProject \in ClientProjects
  /\ bqData \in BqInputs
  /\ bqParams \in {Unset, Set(bqData)}
  /\ bqCalls = <<>>
  /\ bqRet = BqNotReturned
  /\ tableNames = [given |-> FALSE, v |-> <<>>]
  /\ listed = NotListed
  /\ NoLooks
  /\ NoneRegistering
  /\ NotInterpolating
  /\ NotLoading
  /\ NotServing
  /\ tool = [kind |-> "", Statement |-> <<>>, Parameters |-> <<>>, TemplateParameters |-> <<>>]
  /\ params = NoInvocation.params
  /\ db = NoInvocation.db
  /\ pc = NoInvocation.pc
  /\ newStatement = NoInvocation.newStatement
  /\ sliceParams = NoInvocation.sliceParams
  /\ finalStatement = NoInvocation.finalStatement
  /\ calls = NoInvocation.calls
  /\ yielded = NoInvocation.yielded
  /\ rawValues = NoInvocation.rawValues
  /\ out = NoInvocation.out
  /\ ret = NoInvocation.ret
  /\ failure = NoInvocation.failure
  /\ results = NoInvocation.results
  /\ parked = NoInvocation

NextBq ==
  \/ BqParseOk \/ BqParseErr
  \/ BqInvalidProject \/ BqInvalidDataset
  \/ BqMetadataOk \/ BqMetadataErr

SpecBq == InitBq /\ [][NextBq]_vars

\* C20: bigquery-get-dataset-info asks BigQuery for the dataset in the
\* project the request supplies and, when the request supplies none, in the
\* project of the source; dataset has no default; when Invoke gets a project
\* or dataset that is missing or not a string it returns "invalid or missing"
\* and BigQuery is not called.
C20_ProjectDefaultsToSource ==
  /\ Len(bqCalls) <= 1
  /\ bqCalls # <<>> =>
       /\ isString(bqData, datasetKey)
       /\ bqCalls[1].dataset = AsMap(bqData)[datasetKey].s
       /\ bqCalls[1].project =
            IF Has(bqData, projectKey) THEN AsMap(bqData)[projectKey].s ELSE bqProject
       /\ Has(bqData, projectKey) => isString(bqData, projectKey)
  /\ (bqRet.returned /\ ~bqParams.set) =>
       \/ ~isString(bqData, datasetKey)
       \/ Has(bqData, projectKey) /\ ~isString(bqData, projectKey)
  /\ (bqParams.set /\ ~(isString(bqParams.v, projectKey) /\ isString(bqParams.v, datasetKey))) =>
       /\ bqCalls = <<>>
       /\ bqRet.returned => bqRet.err = errInvalidOrMissing
  /\ ~isString(bqData, datasetKey) =>
       /\ bqCalls = <<>>
       /\ bqRet.returned => bqRet.err # ""

\* a request without project got the metadata of its dataset from the
\* project of the source
C20_Witness ==
  /\ ~Has(bqData, projectKey)
  /\ bqRet.returned /\ bqRet.err = ""
  /\ bqCalls = <<[project |-> bqProject, dataset |-> <<"d", "1">>]>>

\* C21: when the driver yields no rows and reports no error, Invoke returns a
\* nil slice (JSON null, not an empty list) and a nil error.
C21_NoRowsGivesNil ==
  (ret.returned /\ Len(calls) = 1 /\ failure = "" /\ db.rows = <<>>) =>
    /\ ret.err = ""
    /\ ret.isNil
    /\ ret.rows = <<>>

\* a query ran, the driver yielded no row and Invoke returned nil, nil
C21_Witness ==
  /\ ret.returned
  /\ Len(calls) = 1
  /\ failure = ""
  /\ db.rows = <<>>
  /\ ret.isNil
  /\ ret.err = ""


(***************************************************************************)
(* looker-make-look: Invoke asks Looker who the caller is, lists the looks *)
(* of the caller's personal folder, refuses a title already in use, then   *)
(* creates a query and a look.  The Looker instance is shared by the       *)
(* invocations in flight; each remote call is one step.                    *)
(***************************************************************************)
\* the invocations in flight
Callers == {1, 2}

\* the users behind the tool's client, as Me reports them
LookerUsers == {[Id |-> "u1", PersonalFolderId |-> "f1"],
                [Id |-> "u2", PersonalFolderId |-> "f2"]}

LookTitles == {"a", "b"}

\* the looks Looker holds before any invocation; by = 0: not made by this tool
ExistingLooks ==
  {<<>>,
   << [title |-> "a", userId |-> "u1", folderId |-> "f1", queryId |-> 0, by |-> 0] >>}

errNoLogger == "unable to get logger from ctx"
errQueryArgs == "error building query request"
errMe == "error making me request"
errFolderLooks == "error getting existing looks in folder"
errTitleUsed == "title already used in user's folder"
errCreateQuery == "error making create query request"
errCreateLook == "error making create look request"

MkNotReturned == [returned |-> FALSE, err |-> "", titles |-> <<>>, id |-> 0, short_url |-> <<>>]

\* the locals of one invocation at entry
MkEntry(client, title) ==
  [client |-> client, title |-> title, pc |-> "logger",
   mresp |-> [Id |-> "", PersonalFolderId |-> ""], lookTitles |-> <<>>,
   qresp |-> 0, resp |-> 0, calls |-> <<>>, ret |-> MkNotReturned]

\* the remote calls of Invoke in the order of the code
MkCallOrder == <<"Me", "FolderLooks", "CreateQuery", "CreateLook", "GetSetting">>

RECURSIVE TitlesIn(_, _)
\* FolderLooks(folder, "title"): the titles of the looks of a folder, in order
TitlesIn(looks, folder) ==
  IF looks = <<>> THEN <<>>
  ELSE IF Head(looks).folderId = folder
       THEN <<Head(looks).title>> \o TitlesIn(Tail(looks), folder)
       ELSE TitlesIn(Tail(looks), folder)

titleUsedNever(lookTitles, title) == FALSE

\* slices.Contains(lookTitles, title)
titleUsed(lookTitles, title) == \E k \in 1..Len(lookTitles) : lookTitles[k] = title

WriteLookWithQueryOtherFolder(m) ==
  [title |-> m.title, userId |-> m.mresp.Id, folderId |-> "",
   queryId |-> m.qresp]

\* the look Invoke asks Looker to create
WriteLookWithQuery(m) ==
  [title |-> m.title, userId |-> m.mresp.Id, folderId |-> m.mresp.PersonalFolderId,
   queryId |-> m.qresp]

\* the short url of the result: prefixed by the host only when the setting has one
shortUrl(hostKnown) == IF hostKnown THEN <<"host", "short">> ELSE <<"short">>

MkCalled(m, name, ok) == Append(m.calls, [name |-> name, ok |-> ok])

MkFail(m, e) == [m.ret EXCEPT !.returned = TRUE, !.err = e]

\* no SQL tool is invoked
NoSqlTool ==
  /\ tool = [kind |-> "", Statement |-> <<>>, Parameters |-> <<>>, TemplateParameters |-> <<>>]
  /\ params = NoInvocation.params
  /\ db = NoInvocation.db
  /\ pc = NoInvocation.pc
  /\ newStatement = NoInvocation.newStatement
  /\ sliceParams = NoInvocation.sliceParams
  /\ finalStatement = NoInvocation.finalStatement
  /\ calls = NoInvocation.calls
  /\ yielded = NoInvocation.yielded
  /\ rawValues = NoInvocation.rawValues
  /\ out = NoInvocation.out
  /\ ret = NoInvocation.ret
  /\ failure = NoInvocation.failure
  /\ results = NoInvocation.results
  /\ parked = NoInvocation

MkUnchanged == UNCHANGED <<tool, locals, parked, loading, serving, listing, metadata, registering, interpolating>>

MkAt(i, at) == mk[i].pc = at /\ ~mk[i].ret.returned

MkNoLogger(i) ==
  /\ MkAt(i, "logger")
  /\ mk' = [mk EXCEPT ![i].ret = MkFail(mk[i], errNoLogger)]
  /\ UNCHANGED <<lookerLooks, lookerQueries>>
  /\ MkUnchanged

MkQueryArgsErr(i) ==
  /\ MkAt(i, "logger")
  /\ mk' = [mk EXCEPT ![i].ret = MkFail(mk[i], errQueryArgs)]
  /\ UNCHANGED <<lookerLooks, lookerQueries>>
  /\ MkUnchanged

MkMeOk(i) ==
  /\ MkAt(i, "logger")
  /\ mk' = [mk EXCEPT ![i].mresp = mk[i].client,
                      ![i].calls = MkCalled(mk[i], "Me", TRUE),
                      ![i].pc = "folderLooks"]
  /\ UNCHANGED <<lookerLooks, lookerQueries>>
  /\ MkUnchanged

MkMeErr(i) ==
  /\ MkAt(i, "logger")
  /\ mk' = [mk EXCEPT ![i].calls = MkCalled(mk[i], "Me", FALSE),
                      ![i].ret = MkFail(mk[i], errMe)]
  /\ UNCHANGED <<lookerLooks, lookerQueries>>
  /\ MkUnchanged

MkFolderLooksOk(i) ==
  /\ MkAt(i, "folderLooks")
  /\ mk' = [mk EXCEPT ![i].lookTitles = TitlesIn(lookerLooks, mk[i].mresp.PersonalFolderId),
                      ![i].calls = MkCalled(mk[i], "FolderLooks", TRUE),
                      ![i].pc = "createQuery"]
  /\ UNCHANGED <<lookerLooks, lookerQueries>>
  /\ MkUnchanged

MkFolderLooksErr(i) ==
  /\ MkAt(i, "folderLooks")
  /\ mk' = [mk EXCEPT ![i].calls = MkCalled(mk[i], "FolderLooks", FALSE),
                      ![i].ret = MkFail(mk[i], errFolderLooks)]
  /\ UNCHANGED <<lookerLooks, lookerQueries>>
  /\ MkUnchanged

\* the title is among the titles FolderLooks reported
MkTitleUsed(i) ==
  /\ MkAt(i, "createQuery")
  /\ titleUsed(mk[i].lookTitles, mk[i].title)
  /\ mk' = [mk EXCEPT ![i].ret = [MkFail(mk[i], errTitleUsed) EXCEPT !.titles = mk[i].lookTitles]]
  /\ UNCHANGED <<lookerLooks, lookerQueries>>
  /\ MkUnchanged

MkCreateQueryOk(i) ==
  /\ MkAt(i, "createQuery")
  /\ ~titleUsed(mk[i].lookTitles, mk[i].title)
  /\ lookerQueries' = Append(lookerQueries, [by |-> i])
  /\ mk' = [mk EXCEPT ![i].qresp = Len(lookerQueries) + 1,
                      ![i].calls = MkCalled(mk[i], "CreateQuery", TRUE),
                      ![i].pc = "createLook"]
  /\ UNCHANGED lookerLooks
  /\ MkUnchanged

MkCreateQueryErr(i) ==
  /\ MkAt(i, "createQuery")
  /\ ~titleUsed(mk[i].lookTitles, mk[i].title)
  /\ mk' = [mk EXCEPT ![i].calls = MkCalled(mk[i], "CreateQuery", FALSE),
                      ![i].ret = MkFail(mk[i], errCreateQuery)]
  /\ UNCHANGED <<lookerLooks, lookerQueries>>
  /\ MkUnchanged

MkCreateLookOk(i) ==
  /\ MkAt(i, "createLook")
  /\ lookerLooks' = Append(lookerLooks, WriteLookWithQuery(mk[i]) @@ [by |-> i])
  /\ mk' = [mk EXCEPT ![i].resp = Len(lookerLooks) + 1,
                      ![i].calls = MkCalled(mk[i], "CreateLook", TRUE),
                      ![i].pc = "getSetting"]
  /\ UNCHANGED lookerQueries
  /\ MkUnchanged

MkCreateLookErr(i) ==
  /\ MkAt(i, "createLook")
  /\ mk' = [mk EXCEPT ![i].calls = MkCalled(mk[i], "CreateLook", FALSE),
                      ![i].ret = MkFail(mk[i], errCreateLook)]
  /\ UNCHANGED <<lookerLooks, lookerQueries>>
  /\ MkUnchanged

\* GetSetting succeeds or fails; a failure is logged and the data is returned
MkGetSetting(i, ok) ==
  /\ MkAt(i, "getSetting")
  /\ mk' = [mk EXCEPT ![i].calls = MkCalled(mk[i], "GetSetting", ok),
                      ![i].ret = [returned |-> TRUE, err |-> "", titles |-> <<>>,
                                  id |-> mk[i].resp, short_url |-> shortUrl(ok)]]
  /\ UNCHANGED <<lookerLooks, lookerQueries>>
  /\ MkUnchanged

InitLook ==
  /\ lookerLooks \in ExistingLooks
  /\ lookerQueries = <<>>
  /\ mk \in [Callers -> {MkEntry(c, t) : c \in LookerUsers, t \in LookTitles}]
  /\ NoneRegistering
  /\ NotInterpolating
  /\ NoOtherTool
  /\ NotLoading
  /\ NotServing
  /\ NoSqlTool

MkStep(i) ==
  \/ MkNoLogger(i) \/ MkQueryArgsErr(i)
  \/ MkMeOk(i) \/ MkMeErr(i)
  \/ MkFolderLooksOk(i) \/ MkFolderLooksErr(i)
  \/ MkTitleUsed(i)
  \/ MkCreateQueryOk(i) \/ MkCreateQueryErr(i)
  \/ MkCreateLookOk(i) \/ MkCreateLookErr(i)
  \/ MkGetSetting(i, TRUE) \/ MkGetSetting(i, FALSE)

NextLook == \E i \in Callers : MkStep(i)

SpecLook == InitLook /\ [][NextLook]_vars


MkQueriesBy(i) == {q \in 1..Len(lookerQueries) : lookerQueries[q].by = i}

MkLooksBy(i) == {l \in 1..Len(lookerLooks) : lookerLooks[l].by = i}

\* the title of invocation i is among the titles FolderLooks reported to it
MkTitleSeen(i) == mk[i].title \in {mk[i].lookTitles[k] : k \in DOMAIN mk[i].lookTitles}

\* C22: an invocation whose title is among the titles of the caller's personal
\* folder returns the "already used" error listing those titles, and creates
\* neither a query nor a look.
C22_DuplicateTitleRefused ==
  \A i \in Callers :
    /\ MkTitleSeen(i) =>
         /\ MkQueriesBy(i) = {}
         /\ MkLooksBy(i) = {}
         /\ mk[i].ret.returned => mk[i].ret.err = errTitleUsed
    /\ mk[i].ret.err = errTitleUsed =>
         /\ MkTitleSeen(i)
         /\ mk[i].ret.titles = mk[i].lookTitles
         /\ mk[i].ret.id = 0
         /\ \A c \in 1..Len(mk[i].calls) : mk[i].calls[c].name \in {"Me", "FolderLooks"}

C22_Witness ==
  \E i \in Callers :
    /\ mk[i].ret.returned
    /\ mk[i].ret.err = errTitleUsed
    /\ mk[i].ret.titles = <<mk[i].title>>
    /\ MkQueriesBy(i) = {}

\* C23: the remote calls of an invocation are a prefix of Me, FolderLooks,
\* CreateQuery, CreateLook, GetSetting, each made only after the previous one
\* succeeded; a returned invocation has created a look exactly when it returned
\* success; its look references its own query, the caller's id and personal
\* folder; a failed GetSetting still returns success, with the short url
\* without the host.
C23_CallOrderAndLook ==
  \A i \in Callers :
    LET m == mk[i]
        n == Len(m.calls)
    IN /\ n <= Len(MkCallOrder)
       /\ \A c \in 1..n : m.calls[c].name = MkCallOrder[c]
       /\ \A c \in 1..n : c < n => m.calls[c].ok
       /\ m.ret.returned => ((MkLooksBy(i) # {}) <=> (m.ret.err = ""))
       /\ Cardinality(MkLooksBy(i)) <= 1
       /\ \A l \in MkLooksBy(i) :
            /\ lookerLooks[l].queryId = m.qresp
            /\ m.qresp \in MkQueriesBy(i)
            /\ lookerLooks[l].userId = m.client.Id
            /\ lookerLooks[l].folderId = m.client.PersonalFolderId
            /\ lookerLooks[l].title = m.title
       /\ (n = Len(MkCallOrder)) =>
            /\ m.ret.returned
            /\ m.ret.err = ""
            /\ m.ret.id \in MkLooksBy(i)
            /\ m.ret.short_url = IF m.calls[n].ok THEN <<"host", "short">> ELSE <<"short">>

C23_Witness ==
  \E i \in Callers :
    /\ mk[i].ret.returned
    /\ mk[i].ret.err = ""
    /\ Len(mk[i].calls) = Len(MkCallOrder)
    /\ ~mk[i].calls[Len(MkCallOrder)].ok
    /\ mk[i].ret.short_url = <<"short">>
    /\ MkLooksBy(i) # {}

\* C24: no folder holds two looks of the same title that were both created
\* through this tool.
C24_TitleUniqueInFolder ==
  \A k, l \in 1..Len(lookerLooks) :
    (k # l /\ lookerLooks[k].by # 0 /\ lookerLooks[l].by # 0) =>
      ~(lookerLooks[k].title = lookerLooks[l].title
        /\ lookerLooks[k].folderId = lookerLooks[l].folderId)


NthPlaceholder(q, k) ==
  IF k = 0 THEN 0
  ELSE CHOOSE i \in 1..Len(q) : q[i] = Placeholder /\ CountPlaceholders(q, i) = k

\* the last n tokens of s
LastTokens(s, n) == SubSeq(s, Len(s) - n + 1, Len(s))

\* C26: interpolateParams accepts any count of parameters: with fewer
\* parameters than ?, the text after the last served ? (the surplus ? included)
\* is left as it is; with more parameters than ?, the result is the one the
\* first parameters alone would give; mindsdb-sql Invoke goes on to the query
\* with the resulting statement.
C26_CountMismatchTolerated ==
  (tool.kind = "mindsdb-sql" /\ finalStatement.set) =>
    LET q == newStatement.v
        ps == sliceParams.v
        nq == CountPlaceholders(q, Len(q))
        np == Len(ps)
        rest == Len(q) - NthPlaceholder(q, np)
    IN /\ np < nq =>
            /\ Len(finalStatement.v) >= rest
            /\ LastTokens(finalStatement.v, rest) = LastTokens(q, rest)
       /\ np > nq => finalStatement.v = interpolateParams(q, SubSeq(ps, 1, nq))
       /\ (ret.returned /\ ret.err = "") => Len(calls) = 1
       /\ Len(calls) = 1 => calls[1].stmt = finalStatement.v


(***************************************************************************)
(* interpolateParams, one loop iteration per step                          *)
(***************************************************************************)
MaxQueryLen == 2
MaxParams == 2

Queries == UNION {[1..k -> {"a", Placeholder}] : k \in 0..MaxQueryLen}

ParamLists == UNION {[1..k -> Values2] : k \in 0..MaxParams}

\* result[:idx] + replacement + result[idx+1:]
spliceAt(res, idx, rep) == SubSeq(res, 1, idx - 1) \o rep \o SubSeq(res, idx + 1, Len(res))

nextParamSkip(i) == i + 2

\* paramIndex++
nextParam(i) == i + 1

IpUnchanged ==
  UNCHANGED <<tool, locals, parked, loading, serving, listing, metadata, looker, registering>>

\* for paramIndex < len(params), a ? is found and replaced
LoopReplace ==
  /\ ~ipReturned
  /\ ipParamIndex < Len(ipParams)
  /\ FirstPlaceholder(ipResult) # 0
  /\ ipResult' = spliceAt(ipResult, FirstPlaceholder(ipResult),
                          replacement(ipParams[ipParamIndex + 1]))
  /\ ipParamIndex' = nextParam(ipParamIndex)
  /\ ipReplaced' = ipReplaced + 1
  /\ UNCHANGED <<ipQuery, ipParams, ipReturned>>
  /\ IpUnchanged

\* idx == -1: break, then return result, nil
LoopBreak ==
  /\ ~ipReturned
  /\ ipParamIndex < Len(ipParams)
  /\ FirstPlaceholder(ipResult) = 0
  /\ ipReturned' = TRUE
  /\ UNCHANGED <<ipQuery, ipParams, ipResult, ipParamIndex, ipReplaced>>
  /\ IpUnchanged

\* the loop condition is false: return result, nil
LoopEnd ==
  /\ ~ipReturned
  /\ ~(ipParamIndex < Len(ipParams))
  /\ ipReturned' = TRUE
  /\ UNCHANGED <<ipQuery, ipParams, ipResult, ipParamIndex, ipReplaced>>
  /\ IpUnchanged

InitInterp ==
  /\ ipQuery \in Queries
  /\ ipParams \in ParamLists
  /\ ipResult = ipQuery
  /\ ipParamIndex = 0
  /\ ipReplaced = 0
  /\ ipReturned = FALSE
  /\ NoSqlTool
  /\ NotLoading
  /\ NotServing
  /\ NoOtherTool
  /\ NoLooks
  /\ NoneRegistering

NextInterp == LoopReplace \/ LoopBreak \/ LoopEnd

\* the function's body runs on: it is sequential code
SpecInterp == InitInterp /\ [][NextInterp]_vars /\ WF_vars(NextInterp)

\* every replacement so far consumed one parameter, and no more replacements
\* than parameters were made; the value returned is interpolateParams
IpProgress ==
  /\ ipReplaced = ipParamIndex
  /\ ipParamIndex <= Len(ipParams)
  /\ ipReturned =>
       /\ ipResult = interpolateParams(ipQuery, ipParams)
       /\ ipParamIndex = Len(ipParams) \/ FirstPlaceholder(ipResult) = 0

\* C27: interpolateParams returns for every query and parameter list; every
\* loop iteration consumes exactly one parameter or leaves the loop, so at
\* most len(params) replacements are made, also when a replacement brings a
\* new ? into the text.
C27_InterpolateTerminates ==
  /\ []IpProgress
  /\ [][ipParamIndex' = ipParamIndex + 1 \/ ipReturned']_interpolating
  /\ <>ipReturned

C27_Witness ==
  /\ ipReturned
  /\ Len(ipParams) = 2
  /\ ipReplaced = 2
  /\ CountPlaceholders(ipQuery, Len(ipQuery)) = 1


\* the names of cols are pairwise distinct
DistinctNames(cols) == \A i, j \in 1..Len(cols) : i # j => cols[i] # cols[j]

\* C28 as claimed: every returned row has as many keys as the result set has
\* columns, and under each column's name the value of that column.
C28_OneEntryPerColumn ==
  (ret.returned /\ ret.err = "") =>
    \A r \in 1..Len(ret.rows) :
      /\ Cardinality(DOMAIN ret.rows[r]) = Len(db.cols)
      /\ \A i \in 1..Len(db.cols) :
           ret.rows[r][db.cols[i]] = cellValue(tool.kind, db.types[i], db.rows[r][i]).v

\* C28 as amended: every returned row has one key per distinct column name,
\* holding the value of the last column of that name; with pairwise distinct
\* names that is one entry per column.
C28_OneEntryPerColumnName ==
  (ret.returned /\ ret.err = "") =>
    \A r \in 1..Len(ret.rows) :
      /\ DOMAIN ret.rows[r] = Range(db.cols)
      /\ DistinctNames(db.cols) => Cardinality(DOMAIN ret.rows[r]) = Len(db.cols)
      /\ \A i \in 1..Len(db.cols) :
           (\A j \in (i+1)..Len(db.cols) : db.cols[j] # db.cols[i]) =>
             ret.rows[r][db.cols[i]] = cellValue(tool.kind, db.types[i], db.rows[r][i]).v

C28_Witness ==
  /\ ret.returned /\ ret.err = ""
  /\ db.cols = <<"id", "id">>
  /\ Len(ret.rows) = 1
  /\ db.rows[1][1] = IntV(1)
  /\ Cardinality(DOMAIN ret.rows[1]) = 1
  /\ ret.rows[1]["id"] = cellValue(tool.kind, db.types[2], db.rows[1][2]).v
  /\ ret.rows[1]["id"] # IntV(1)

\* C29: the mapping appended for row i keeps the values of row i while the
\* scan buffer is re-used for the later rows, and holds null wherever row i has
\* a NULL, whatever the buffer held from the row before.
C29_NoLeakBetweenRows ==
  tool.kind \in SqlKinds =>
    \A r \in 1..Len(out) :
      \A i \in 1..Len(db.cols) :
        LastOfName(db.cols, i) =>
          /\ db.rows[r][i] = Nil => out[r][db.cols[i]] = Nil
          /\ db.rows[r][i] # Nil =>
               out[r][db.cols[i]] = cellValue(tool.kind, db.types[i], db.rows[r][i]).v

C29_Witness ==
  /\ tool.kind \in SqlKinds
  /\ ret.returned /\ ret.err = ""
  /\ Len(ret.rows) = 2
  /\ \E i \in 1..Len(db.cols) :
       /\ LastOfName(db.cols, i)
       /\ db.rows[1][i] # Nil
       /\ db.rows[2][i] = Nil
       /\ ret.rows[1][db.cols[i]] # Nil
       /\ ret.rows[2][db.cols[i]] = Nil


(***************************************************************************)
(* Registration of the tool kinds: every tool package has an init function *)
(* that registers its kind with its factory newConfig, and panics when     *)
(* tools.Register reports failure.  The init functions of the packages     *)
(* linked into the binary run one after the other before the server runs.  *)
(***************************************************************************)
\* the tool packages, and a package that declares the kind of another one
Packages == {"tidbsql", "mindsdbsql", "postgresexecutesql", "bigquerygetdatasetinfo",
             "lookergetlooks", "lookermakelook", "tidbsqlcopy"}

\* const kind string of a package
kindOf(p) ==
  CASE p = "tidbsql" -> "tidb-sql"
    [] p = "mindsdbsql" -> "mindsdb-sql"
    [] p = "postgresexecutesql" -> "postgres-execute-sql"
    [] p = "bigquerygetdatasetinfo" -> "bigquery-get-dataset-info"
    [] p = "lookergetlooks" -> "looker-get-looks"
    [] p = "lookermakelook" -> "looker-make-look"
    [] OTHER -> "tidb-sql"

\* tools.Register(kind, factory): false for a kind that is registered already,
\* else the factory is stored under the kind
Register(reg, k, factory) ==
  IF k \in DOMAIN reg
  THEN [ok |-> FALSE, reg |-> reg]
  ELSE [ok |-> TRUE,
        reg |-> [x \in DOMAIN reg \cup {k} |-> IF x = k THEN factory ELSE reg[x]]]

initNeverPanics(ok) == FALSE

\* if !tools.Register(kind, newConfig) { panic(...) }
initPanics(ok) == ~ok

RegUnchanged ==
  UNCHANGED <<tool, locals, parked, loading, serving, listing, metadata, looker, interpolating>>

InitPending(p) == panicked = "" /\ p \in DOMAIN pendingInits /\ pendingInits[p]

\* init of package p returns: its newConfig is the factory of its kind
InitRegisters(p) ==
  /\ InitPending(p)
  /\ ~initPanics(Register(toolRegistry, kindOf(p), p).ok)
  /\ toolRegistry' = Register(toolRegistry, kindOf(p), p).reg
  /\ pendingInits' = [pendingInits EXCEPT ![p] = FALSE]
  /\ UNCHANGED panicked
  /\ RegUnchanged

\* init of package p panics with "tool kind ... already registered": the
\* process ends
InitPanics(p) ==
  /\ InitPending(p)
  /\ initPanics(Register(toolRegistry, kindOf(p), p).ok)
  /\ toolRegistry' = Register(toolRegistry, kindOf(p), p).reg
  /\ panicked' = kindOf(p)
  /\ UNCHANGED pendingInits
  /\ RegUnchanged

\* the packages linked into the binary, none initialised yet
InitReg ==
  /\ toolRegistry = EmptyMap
  /\ \E linked \in SUBSET Packages : pendingInits = [p \in linked |-> TRUE]
  /\ panicked = ""
  /\ NoSqlTool
  /\ NotLoading
  /\ NotServing
  /\ NoOtherTool
  /\ NoLooks
  /\ NotInterpolating

NextReg == \E p \in Packages : InitRegisters(p) \/ InitPanics(p)

SpecReg == InitReg /\ [][NextReg]_vars

\* the packages whose init has returned
Initialised == {p \in DOMAIN pendingInits : ~pendingInits[p]}

\* every init has returned: the program runs
RegRunning == panicked = "" /\ \A p \in DOMAIN pendingInits : ~pendingInits[p]

\* C30: a kind is bound to the factory of the one package that registered it:
\* the kind of every initialised package maps to that package's own factory,
\* and an init that finds its kind registered panics naming the kind, with the
\* first factory still in place, so the program never runs with a kind two
\* packages registered.
C30_OneFactoryPerKind ==
  /\ \A p \in Initialised :
       /\ kindOf(p) \in DOMAIN toolRegistry
       /\ toolRegistry[kindOf(p)] = p
  /\ \A k \in DOMAIN toolRegistry : toolRegistry[k] \in Initialised
  /\ panicked # "" =>
       \E p \in DOMAIN pendingInits :
         /\ pendingInits[p]
         /\ kindOf(p) = panicked
         /\ panicked \in DOMAIN toolRegistry
         /\ toolRegistry[panicked] # p
  /\ RegRunning => \A p, q \in DOMAIN pendingInits : p # q => kindOf(p) # kindOf(q)

C30_Witness ==
  /\ panicked = "tidb-sql"
  /\ toolRegistry["tidb-sql"] = "tidbsql"
  /\ pendingInits["tidbsqlcopy"]
  /\ "mindsdbsql" \in Initialised

====
